---- MODULE Spec2Model ----
(***************************************************************************)
(* Model of SignLanguageDetectionService: the gesture classifier, the      *)
(* sentence buffer, the sentence-analysis adapter and the frame loop       *)
(* (startDetection / stopDetection / updateSettings).                      *)
(*                                                                         *)
(* Coordinates are integers in hundredths of the normalised image space    *)
(* (0.05 is 5, 0.3 is 30); confidences are integers in hundredths          *)
(* (0.85 is 85); times are milliseconds.  Math.random() is a choice over   *)
(* the labels the draw can select.  The landmarks field of a               *)
(* DetectionResult (a copy of the input) is not carried.                   *)
(***************************************************************************)
EXTENDS Integers, Sequences, FiniteSets, TLC

VARIABLES
    hands,                      \* this.hands: the current Hands instance, NoHands for null
    animationFrameId,           \* this.animationFrameId: 0 for null
    isInitialized,              \* this.isInitialized
    onResultsCallback,          \* this.onResultsCallback: 0 for null, else the id of the callback
    sensitivity,                \* this.sensitivity
    language,                   \* this.language
    openai,                     \* this.openai: FALSE for null, TRUE for a client
    detectedSignsBuffer,        \* this.detectedSignsBuffer
    sentenceConstructionEnabled,\* this.sentenceConstructionEnabled
    lastSentenceAnalysis,       \* this.lastSentenceAnalysis
    apiKey,                     \* import.meta.env.VITE_OPENAI_API_KEY is set
    now,                        \* Date.now()
    videoPaused,                \* videoElement.paused || videoElement.ended
    pendingStarts,              \* startDetection calls suspended at `await this.initialize()`
    loops,                      \* live processFrame closures: loop id -> position
    analyses,                   \* analyzeSentenceConstruction calls suspended at the `await` of create()
    nextRafId,                  \* next handle requestAnimationFrame returns
    nextHandsId,                \* number of Hands instances constructed so far, plus one
    nextCallId,                 \* number of startDetection calls so far, plus one
    frame,                      \* classifier harness: the Results under classification
    detected,                   \* classifier harness: what classifyGesture returned for frame
    obs                         \* what the last step did (observation only)

vars == <<hands, animationFrameId, isInitialized, onResultsCallback, sensitivity,
          language, openai, detectedSignsBuffer, sentenceConstructionEnabled,
          lastSentenceAnalysis, apiKey, now, videoPaused, pendingStarts, loops,
          analyses, nextRafId, nextHandsId, nextCallId, frame, detected, obs>>

svcVars == <<hands, animationFrameId, isInitialized, onResultsCallback, sensitivity,
             language, openai, detectedSignsBuffer, sentenceConstructionEnabled,
             lastSentenceAnalysis>>

envVars == <<apiKey, now, videoPaused, pendingStarts, loops, analyses,
             nextRafId, nextHandsId, nextCallId>>

harnessVars == <<frame, detected>>

-----------------------------------------------------------------------------
(* Bounds of the model *)

MaxStarts == 2          \* startDetection calls explored
MaxRaf == 2             \* requestAnimationFrame handles explored
MaxInstances == 2       \* Hands instances explored
MaxAnalyses == 2        \* sentence analyses outstanding at once
MaxNow == 11000         \* latest clock value explored (ms)

-----------------------------------------------------------------------------
(* Program constants *)

sentenceAnalysisInterval == 3000
BufferCapacity == 10
LandmarkCount == 21
ConfidenceGate == 50
UiConfidenceGate == 60   \* handleDetectionResult shows a result when confidence > 0.6
DefaultSensitivity == 7

ASL == "American Sign Language (ASL)"
KSL == "Kenyan Sign Language (KSL)"

-----------------------------------------------------------------------------
(* Landmark model and geometric primitives *)

\* hand[i] of the source (0-based) is the (i+1)-th element of the sequence
LM(hand, i) == hand[i + 1]

Abs(a) == IF a < 0 THEN 0 - a ELSE a

Max3(a, b, c) == IF a >= b /\ a >= c THEN a ELSE IF b >= c THEN b ELSE c

CountTrue(flags) == Cardinality({i \in DOMAIN flags : flags[i]})

isFingerExtended(tip, pip, mcp) == tip.y < pip.y /\ pip.y < mcp.y

isFingerCurled(tip, pip, mcp) == tip.y > pip.y /\ pip.y > mcp.y

\* variant: the open-palm threshold taken as 1.2
AspectRatioAbove12(handWidth, handHeight) ==
    IF handHeight = 0 THEN handWidth > 0 ELSE 10 * handWidth > 12 * handHeight

\* handWidth / handHeight > 0.8 in IEEE arithmetic: x/0 is Infinity for x > 0, 0/0 is NaN
AspectRatioAbove08(handWidth, handHeight) ==
    IF handHeight = 0 THEN handWidth > 0 ELSE 10 * handWidth > 8 * handHeight

\* Math.max of the three distances between neighbouring fingertips
fingerSpreadOf(hand) ==
    Max3(Abs(LM(hand, 8).x - LM(hand, 12).x),
         Abs(LM(hand, 12).x - LM(hand, 16).x),
         Abs(LM(hand, 16).x - LM(hand, 20).x))

NoSign == ""

DetectionResult(sign, confidence, handShape) ==
    [sign |-> sign, confidence |-> confidence, gestureType |-> "static", handShape |-> handShape]

Null == [sign |-> NoSign, confidence |-> 0, gestureType |-> "null", handShape |-> "null"]

\* a TypeError thrown by a read of a landmark a short hand does not have
Raised == [sign |-> NoSign, confidence |-> 0, gestureType |-> "raised", handShape |-> "raised"]

-----------------------------------------------------------------------------
(* recognizeASLAlphabet *)

recognizeASLAlphabet(hand) ==
    LET thumbTip == LM(hand, 4)
        indexTip == LM(hand, 8)
        middleTip == LM(hand, 12)
        ringTip == LM(hand, 16)
        pinkyTip == LM(hand, 20)
        indexMcp == LM(hand, 5)
        middleMcp == LM(hand, 9)
        ringMcp == LM(hand, 13)
        pinkyMcp == LM(hand, 17)
        iUp == indexTip.y < indexMcp.y
        mUp == middleTip.y < middleMcp.y
        rUp == ringTip.y < ringMcp.y
        pUp == pinkyTip.y < pinkyMcp.y
        tUp == thumbTip.y < LM(hand, 3).y
        tDown == thumbTip.y > LM(hand, 3).y
        iC == isFingerCurled(indexTip, LM(hand, 6), indexMcp)
        mC == isFingerCurled(middleTip, LM(hand, 10), middleMcp)
        rC == isFingerCurled(ringTip, LM(hand, 14), ringMcp)
        pC == isFingerCurled(pinkyTip, LM(hand, 18), pinkyMcp)
        tC == isFingerCurled(thumbTip, LM(hand, 3), LM(hand, 2))
    IN  IF iC /\ mC /\ rC /\ pC /\ tUp THEN "A"
        ELSE IF iUp /\ mUp /\ rUp /\ pUp /\ tDown THEN "B"
        ELSE IF iUp /\ mUp /\ rUp /\ pUp /\ Abs(indexTip.x - pinkyTip.x) > 10 THEN "C"
        ELSE IF iUp /\ mC /\ rC /\ pC THEN "D"
        ELSE IF iC /\ mC /\ rC /\ pC /\ tC THEN "E"
        ELSE IF iUp /\ tUp /\ mC /\ rC /\ pC THEN "F"
        ELSE IF iUp /\ tUp /\ mC /\ rC /\ pC /\ Abs(indexTip.x - thumbTip.x) < 5 THEN "G"
        ELSE IF iUp /\ mUp /\ rC /\ pC /\ Abs(indexTip.x - middleTip.x) < 5 THEN "H"
        ELSE IF iC /\ mC /\ rC /\ pUp THEN "I"
        ELSE IF iC /\ mC /\ rC /\ pUp THEN "J"
        ELSE IF iUp /\ mUp /\ rC /\ pC /\ Abs(indexTip.x - thumbTip.x) < 3 THEN "K"
        ELSE IF iUp /\ tUp /\ mC /\ rC /\ pC /\ Abs(indexTip.x - thumbTip.x) > 5 THEN "L"
        ELSE IF iUp /\ mUp /\ rUp /\ tUp /\ pC THEN "M"
        ELSE IF iUp /\ mUp /\ tUp /\ rC /\ pC THEN "N"
        ELSE IF iUp /\ mUp /\ rUp /\ pUp /\ tUp /\ fingerSpreadOf(hand) < 5 THEN "O"
        ELSE IF iUp /\ thumbTip.x > indexTip.x /\ mC /\ rC /\ pC THEN "P"
        ELSE IF iUp /\ tUp /\ mC /\ rC /\ pC /\ indexTip.x < thumbTip.x THEN "Q"
        ELSE IF iUp /\ mUp /\ tUp /\ rC /\ pC THEN "R"
        ELSE IF iC /\ mC /\ rC /\ pC /\ tUp /\ thumbTip.x > indexTip.x THEN "S"
        ELSE IF iUp /\ mUp /\ tUp /\ rC /\ pC
                /\ thumbTip.x > indexTip.x /\ thumbTip.x < middleTip.x THEN "T"
        ELSE IF iUp /\ mUp /\ rC /\ pC THEN "U"
        ELSE IF iUp /\ mUp /\ rC /\ pC /\ Abs(indexTip.x - middleTip.x) > 5 THEN "V"
        ELSE IF iUp /\ mUp /\ rUp /\ pC THEN "W"
        ELSE IF iC /\ mUp /\ rC /\ pC THEN "X"
        ELSE IF tUp /\ pUp /\ iC /\ mC /\ rC THEN "Y"
        ELSE IF iUp /\ mC /\ rC /\ pC THEN "Z"
        ELSE NoSign

-----------------------------------------------------------------------------
(* recognizeNumbers *)

recognizeNumbers(hand) ==
    LET thumbTip == LM(hand, 4)
        indexTip == LM(hand, 8)
        middleTip == LM(hand, 12)
        ringTip == LM(hand, 16)
        pinkyTip == LM(hand, 20)
        indexMcp == LM(hand, 5)
        middleMcp == LM(hand, 9)
        ringMcp == LM(hand, 13)
        pinkyMcp == LM(hand, 17)
        iUp == indexTip.y < indexMcp.y
        mUp == middleTip.y < middleMcp.y
        rUp == ringTip.y < ringMcp.y
        pUp == pinkyTip.y < pinkyMcp.y
        tUp == thumbTip.y < LM(hand, 3).y
        tDown == thumbTip.y > LM(hand, 3).y
        mC == isFingerCurled(middleTip, LM(hand, 10), middleMcp)
        rC == isFingerCurled(ringTip, LM(hand, 14), ringMcp)
        pC == isFingerCurled(pinkyTip, LM(hand, 18), pinkyMcp)
    IN  IF mUp /\ rUp /\ pUp /\ Abs(thumbTip.x - indexTip.x) < 5
              /\ Abs(thumbTip.y - indexTip.y) < 5 THEN "0"
        ELSE IF iUp /\ mC /\ rC /\ pC THEN "1"
        ELSE IF iUp /\ mUp /\ rC /\ pC THEN "2"
        ELSE IF iUp /\ mUp /\ rUp /\ pC THEN "3"
        ELSE IF iUp /\ mUp /\ rUp /\ pUp /\ tDown THEN "4"
        ELSE IF iUp /\ mUp /\ rUp /\ pUp /\ tUp THEN "5"
        ELSE IF iUp /\ mUp /\ rUp /\ pUp /\ Abs(thumbTip.x - pinkyTip.x) < 3 THEN "6"
        ELSE IF iUp /\ mUp /\ rUp /\ pC /\ tDown THEN "7"
        ELSE IF iUp /\ mUp /\ rUp /\ pUp /\ Abs(thumbTip.x - middleTip.x) < 3 THEN "8"
        ELSE IF iUp /\ mUp /\ rUp /\ pUp /\ Abs(thumbTip.x - ringTip.x) < 3 THEN "9"
        ELSE IF iUp /\ mUp /\ rUp /\ pUp /\ tUp THEN "10"
        ELSE NoSign

-----------------------------------------------------------------------------
(* Vocabulary predicates: hand[i].y against hand[i-2].y, the fingertip against
   the joint two landmarks below it (the PIP joint; hand[2] for the thumb) *)

TipAbovePip(hand, i) == LM(hand, i).y < LM(hand, i - 2).y

TipBelowPip(hand, i) == LM(hand, i).y > LM(hand, i - 2).y

detectHelloGesture(hand) == \A i \in {4, 8, 12, 16, 20} : TipAbovePip(hand, i)

detectThankYouGesture(hand) ==
    /\ LM(hand, 0).y < LM(hand, 9).y
    /\ Abs(LM(hand, 8).x - LM(hand, 12).x) < 5

detectPleaseGesture(hand) ==
    /\ Abs(LM(hand, 0).x - 50) < 20
    /\ \A i \in {8, 12, 16, 20} : TipBelowPip(hand, i)

detectYesGesture(hand) == \A i \in {8, 12, 16, 20} : TipBelowPip(hand, i)

detectNoGesture(hand) ==
    /\ TipAbovePip(hand, 8)
    /\ \A i \in {12, 16, 20} : TipBelowPip(hand, i)

detectGoodMorningGesture(hand) ==
    /\ LM(hand, 0).y < 30
    /\ \E i \in {4, 8, 12, 16, 20} : TipAbovePip(hand, i)

detectHowAreYouGesture(hand) == \A i \in {4, 8, 12, 16, 20} : TipAbovePip(hand, i)

detectNiceToMeetYouGesture(hand) == TipAbovePip(hand, 8)

detectSorryGesture(hand) ==
    /\ \A i \in {8, 12, 16, 20} : TipBelowPip(hand, i)
    /\ LM(hand, 0).y > 60

detectHelpGesture(hand) ==
    /\ LM(hand, 4).y < LM(hand, 3).y
    /\ TipAbovePip(hand, 20)
    /\ TipBelowPip(hand, 12)

detectWaterGesture(hand) ==
    /\ TipAbovePip(hand, 8)
    /\ TipAbovePip(hand, 12)
    /\ TipBelowPip(hand, 16)
    /\ TipBelowPip(hand, 20)

detectFoodGesture(hand) ==
    /\ \A i \in {8, 12, 16, 20} : TipBelowPip(hand, i)
    /\ LM(hand, 0).y < 40

detectMoreGesture(hand) ==
    /\ \E i \in {8, 12, 16, 20} : TipAbovePip(hand, i)
    /\ Abs(LM(hand, 8).x - LM(hand, 12).x) < 10

\* the vocabularySigns loop of classifyGesture: the first pattern that matches
vocabularySigns(hand) ==
    IF detectHelloGesture(hand) THEN "Hello"
    ELSE IF detectThankYouGesture(hand) THEN "Thank you"
    ELSE IF detectPleaseGesture(hand) THEN "Please"
    ELSE IF detectSorryGesture(hand) THEN "Sorry"
    ELSE IF detectYesGesture(hand) THEN "Yes"
    ELSE IF detectNoGesture(hand) THEN "No"
    ELSE IF detectGoodMorningGesture(hand) THEN "Good morning"
    ELSE IF detectHowAreYouGesture(hand) THEN "How are you?"
    ELSE IF detectNiceToMeetYouGesture(hand) THEN "Nice to meet you"
    ELSE IF detectHelpGesture(hand) THEN "Help"
    ELSE IF detectWaterGesture(hand) THEN "Water"
    ELSE IF detectFoodGesture(hand) THEN "Food"
    ELSE IF detectMoreGesture(hand) THEN "More"
    ELSE NoSign

-----------------------------------------------------------------------------
(* analyzeFingerPattern *)

\* the five comparisons analyzeFingerPattern and detectKSLGesture count
tipsUp(hand) ==
    <<LM(hand, 4).y < LM(hand, 3).y,
      LM(hand, 8).y < LM(hand, 5).y,
      LM(hand, 12).y < LM(hand, 9).y,
      LM(hand, 16).y < LM(hand, 13).y,
      LM(hand, 20).y < LM(hand, 17).y>>

\* `!extendedFingers[0]` indexes a number: undefined, so the negation is true
analyzeFingerPattern(hand) ==
    LET up == tipsUp(hand)
        extendedFingers == CountTrue(up)
    IN  IF extendedFingers = 1 /\ up[2] THEN "1"
        ELSE IF extendedFingers = 2 /\ up[2] /\ up[3] THEN "2"
        ELSE IF extendedFingers = 3 /\ up[2] /\ up[3] /\ up[4] THEN "3"
        ELSE IF extendedFingers = 4 THEN "4"
        ELSE IF extendedFingers = 5 THEN "5"
        ELSE IF extendedFingers = 0 THEN "A"
        ELSE IF extendedFingers = 1 /\ TRUE THEN "D"
        ELSE NoSign

-----------------------------------------------------------------------------
(* intelligentFallbackDetection: the set of labels the Math.random() draws can select.
   The vocabulary argument is never read. *)

intelligentFallbackDetection(hand) ==
    LET fingerSpread == fingerSpreadOf(hand)
        extendedCount == Cardinality({i \in {8, 12, 16, 20} : TipAbovePip(hand, i)})
    IN  IF extendedCount = 0 THEN {"A", "S", "T"}
        ELSE IF extendedCount = 1 THEN {"1", "D"}
        ELSE IF extendedCount = 2 THEN {"2", "V"}
        ELSE IF extendedCount >= 4 THEN {"5", "B"}
        ELSE IF fingerSpread < 10
             THEN {"F", "1", "2", "3", "4", "5", "6", "7", "8", "9", "10"}
        ELSE {"Hello", "Thank you", "Please", "Yes", "No", "Good morning"}

-----------------------------------------------------------------------------
(* Kenyan Sign Language overlay *)

kslVocabulary ==
    [k \in {"1", "2", "3", "4", "5", "6", "7", "8", "9", "10", "20", "30", "40", "50", "100",
            "Hello", "Thank you", "Please", "Sorry", "Yes", "No", "Good morning",
            "Good afternoon", "How are you?", "Fine", "Nice to meet you", "Help", "Water",
            "Food", "Home", "School", "Work", "Mother", "Father", "Friend", "Teacher",
            "Love", "Happy", "Sad", "More", "Stop", "Go", "Come",
            "Red", "Blue", "Green", "Yellow", "Black", "White",
            "What is your name?", "My name is", "I love you", "Good night", "Goodbye"} |->
        CASE k = "1" -> " moja" [] k = "2" -> "mbili" [] k = "3" -> "tatu"
          [] k = "4" -> "nne" [] k = "5" -> "tano" [] k = "6" -> "sita"
          [] k = "7" -> "saba" [] k = "8" -> "nane" [] k = "9" -> "tisa"
          [] k = "10" -> "kumi" [] k = "20" -> "ishirini" [] k = "30" -> "thelathini"
          [] k = "40" -> "arobaini" [] k = "50" -> "hamsini" [] k = "100" -> "mia moja"
          [] k = "Hello" -> "Hodi" [] k = "Thank you" -> "Asante"
          [] k = "Please" -> "Tafadhali" [] k = "Sorry" -> "Samahani"
          [] k = "Yes" -> "Ndio" [] k = "No" -> "Hapana"
          [] k = "Good morning" -> "Habari za asubuhi"
          [] k = "Good afternoon" -> "Habari za mchana"
          [] k = "How are you?" -> "Habari yako?" [] k = "Fine" -> "Nzuri"
          [] k = "Nice to meet you" -> "Ninafurahi kukutana nawe"
          [] k = "Help" -> "Msaada" [] k = "Water" -> "Maji" [] k = "Food" -> "Chakula"
          [] k = "Home" -> "Nyumbani" [] k = "School" -> "Shule" [] k = "Work" -> "Kazi"
          [] k = "Mother" -> "Mama" [] k = "Father" -> "Baba" [] k = "Friend" -> "Rafiki"
          [] k = "Teacher" -> "Mwalimu" [] k = "Love" -> "Upendo" [] k = "Happy" -> "Furaha"
          [] k = "Sad" -> "Huzuni" [] k = "More" -> "Zaidi" [] k = "Stop" -> "Simama"
          [] k = "Go" -> "Nenda" [] k = "Come" -> "Njoo"
          [] k = "Red" -> "Nyekundu" [] k = "Blue" -> "Bluu" [] k = "Green" -> "Kijani"
          [] k = "Yellow" -> "Njano" [] k = "Black" -> "Nyeusi" [] k = "White" -> "Nyeupe"
          [] k = "What is your name?" -> "Jina lako nani?"
          [] k = "My name is" -> "Jina langu ni" [] k = "I love you" -> "Nakupenda"
          [] k = "Good night" -> "Usiku mwema" [] k = "Goodbye" -> "Kwaheri"]

detectASLGestureForKSL(hand) ==
    LET thumbTip == LM(hand, 4)
        indexTip == LM(hand, 8)
        middleTip == LM(hand, 12)
        ringTip == LM(hand, 16)
        pinkyTip == LM(hand, 20)
        extendedFingers ==
            CountTrue(<<thumbTip.y < LM(hand, 3).y,
                        indexTip.y < LM(hand, 8 - 2).y,
                        middleTip.y < LM(hand, 12 - 2).y,
                        ringTip.y < LM(hand, 16 - 2).y,
                        pinkyTip.y < LM(hand, 20 - 2).y>>)
    IN  IF extendedFingers = 0 THEN "Fist"
        ELSE IF extendedFingers = 1 /\ indexTip.y < LM(hand, 6).y THEN "Point"
        ELSE IF extendedFingers = 2 /\ indexTip.y < LM(hand, 6).y
                /\ middleTip.y < LM(hand, 10).y THEN "Peace"
        ELSE IF extendedFingers = 5 THEN "Open Hand"
        ELSE IF thumbTip.y < LM(hand, 3).y /\ pinkyTip.y < LM(hand, 18).y
                /\ isFingerCurled(indexTip, LM(hand, 6), LM(hand, 5))
                /\ isFingerCurled(middleTip, LM(hand, 10), LM(hand, 9))
                /\ isFingerCurled(ringTip, LM(hand, 14), LM(hand, 13)) THEN "I Love You"
        ELSE NoSign

detectKSLGesture(hand) ==
    LET indexTip == LM(hand, 8)
        middleTip == LM(hand, 12)
        ringTip == LM(hand, 16)
        pinkyTip == LM(hand, 20)
        indexMcp == LM(hand, 5)
        middleMcp == LM(hand, 9)
        ringMcp == LM(hand, 13)
        pinkyMcp == LM(hand, 17)
        up == tipsUp(hand)
        extendedFingers == CountTrue(up)
        iC == isFingerCurled(indexTip, LM(hand, 6), indexMcp)
        mC == isFingerCurled(middleTip, LM(hand, 10), middleMcp)
        rC == isFingerCurled(ringTip, LM(hand, 14), ringMcp)
        pC == isFingerCurled(pinkyTip, LM(hand, 18), pinkyMcp)
        aslEquivalent == detectASLGestureForKSL(hand)
    IN  IF extendedFingers = 1 /\ up[2] THEN "1"
        ELSE IF extendedFingers = 2 /\ up[2] /\ up[3] THEN "2"
        ELSE IF extendedFingers = 3 THEN "3"
        ELSE IF extendedFingers = 4 THEN "4"
        ELSE IF extendedFingers = 5 THEN "5"
        ELSE IF up[2] /\ up[3] /\ up[4] /\ up[5] THEN "Hodi"
        ELSE IF up[1] /\ up[2] /\ mC THEN "Asante"
        ELSE IF Abs(LM(hand, 0).x - 50) < 30 /\ LM(hand, 0).y > 50 THEN "Tafadhali"
        ELSE IF iC /\ mC THEN "Ndio"
        ELSE IF up[2] /\ mC /\ rC /\ pC THEN "Hapana"
        ELSE IF up[2] /\ up[3] /\ rC /\ pC THEN "Maji"
        ELSE IF iC /\ mC /\ rC /\ pC /\ LM(hand, 0).y < 40 THEN "Chakula"
        ELSE IF aslEquivalent # NoSign /\ aslEquivalent \in DOMAIN kslVocabulary
             THEN kslVocabulary[aslEquivalent]
        ELSE NoSign

-----------------------------------------------------------------------------
(* classifyGesture: the set of results the call can return
   ({Null} for null; more than one element only where Math.random() decides) *)

\* the if / else-if chain on numFingersExtended (canonical static poses)
canonicalPose(firstHand) ==
    LET thumbTip == LM(firstHand, 4)
        indexTip == LM(firstHand, 8)
        middleTip == LM(firstHand, 12)
        ringTip == LM(firstHand, 16)
        pinkyTip == LM(firstHand, 20)
        indexMcp == LM(firstHand, 5)
        middleMcp == LM(firstHand, 9)
        ringMcp == LM(firstHand, 13)
        pinkyMcp == LM(firstHand, 17)
        wrist == LM(firstHand, 0)
        indexPip == LM(firstHand, 6)
        middlePip == LM(firstHand, 10)
        ringPip == LM(firstHand, 14)
        pinkyPip == LM(firstHand, 18)
        fingersExtended ==
            <<isFingerExtended(thumbTip, LM(firstHand, 3), LM(firstHand, 2)),
              isFingerExtended(indexTip, indexPip, indexMcp),
              isFingerExtended(middleTip, middlePip, middleMcp),
              isFingerExtended(ringTip, ringPip, ringMcp),
              isFingerExtended(pinkyTip, pinkyPip, pinkyMcp)>>
        numFingersExtended == CountTrue(fingersExtended)
        handWidth == Abs(indexMcp.x - pinkyMcp.x)
        handHeight == Abs(wrist.y - middleTip.y)
        allFingersCurled ==
            /\ indexTip.y > indexPip.y
            /\ middleTip.y > middlePip.y
            /\ ringTip.y > ringPip.y
            /\ pinkyTip.y > pinkyPip.y
    IN  IF numFingersExtended = 0
        THEN IF allFingersCurled THEN DetectionResult("Fist", 85, "fist") ELSE Null
        ELSE IF numFingersExtended = 1
        THEN IF fingersExtended[2]
                /\ ~fingersExtended[1] /\ ~fingersExtended[3]
                /\ ~fingersExtended[4] /\ ~fingersExtended[5]
             THEN DetectionResult("Point", 85, "index_extended") ELSE Null
        ELSE IF numFingersExtended = 2
        THEN IF fingersExtended[2] /\ fingersExtended[3]
                /\ ~fingersExtended[1] /\ ~fingersExtended[4] /\ ~fingersExtended[5]
             THEN DetectionResult("Peace", 85, "v_shape") ELSE Null
        ELSE IF numFingersExtended = 5
        THEN IF (\A i \in 1..5 : fingersExtended[i])
                /\ AspectRatioAbove08(handWidth, handHeight)
             THEN DetectionResult("Open Hand", 85, "open_palm") ELSE Null
        ELSE Null

\* "I Love You": thumb and pinky extended, index, middle and ring not
iLoveYouPose(firstHand) ==
    LET ext(t, p, m) == isFingerExtended(LM(firstHand, t), LM(firstHand, p), LM(firstHand, m))
    IN  ext(4, 3, 2) /\ ext(20, 18, 17) /\ ~ext(8, 6, 5) /\ ~ext(12, 10, 9) /\ ~ext(16, 14, 13)

\* variant: the cascade ends with `return null` instead of the random fallback
classifyHandNoFallback(firstHand, lang) ==
    LET pose == canonicalPose(firstHand)
        aslAlphabet == recognizeASLAlphabet(firstHand)
        numberSign == recognizeNumbers(firstHand)
        vocabularySign == vocabularySigns(firstHand)
        fingerPattern == analyzeFingerPattern(firstHand)
        kslSign == detectKSLGesture(firstHand)
    IN  IF pose # Null THEN {pose}
        ELSE IF iLoveYouPose(firstHand) THEN {DetectionResult("I Love You", 85, "l_shape")}
        ELSE IF aslAlphabet # NoSign THEN {DetectionResult(aslAlphabet, 85, "alphabet")}
        ELSE IF numberSign # NoSign THEN {DetectionResult(numberSign, 85, "number")}
        ELSE IF vocabularySign # NoSign THEN {DetectionResult(vocabularySign, 80, "vocabulary")}
        ELSE IF fingerPattern # NoSign THEN {DetectionResult(fingerPattern, 70, "pattern_based")}
        ELSE IF lang = KSL /\ kslSign # NoSign THEN {DetectionResult(kslSign, 75, "ksl")}
        ELSE {Null}

classifyHand(firstHand, lang) ==
    LET pose == canonicalPose(firstHand)
        aslAlphabet == recognizeASLAlphabet(firstHand)
        numberSign == recognizeNumbers(firstHand)
        vocabularySign == vocabularySigns(firstHand)
        fingerPattern == analyzeFingerPattern(firstHand)
        kslSign == detectKSLGesture(firstHand)
    IN  IF pose # Null THEN {pose}
        ELSE IF iLoveYouPose(firstHand) THEN {DetectionResult("I Love You", 85, "l_shape")}
        ELSE IF aslAlphabet # NoSign THEN {DetectionResult(aslAlphabet, 85, "alphabet")}
        ELSE IF numberSign # NoSign THEN {DetectionResult(numberSign, 85, "number")}
        ELSE IF vocabularySign # NoSign THEN {DetectionResult(vocabularySign, 80, "vocabulary")}
        ELSE IF fingerPattern # NoSign THEN {DetectionResult(fingerPattern, 70, "pattern_based")}
        ELSE IF lang = KSL /\ kslSign # NoSign THEN {DetectionResult(kslSign, 75, "ksl")}
        ELSE {DetectionResult(s, 65, "fallback") : s \in intelligentFallbackDetection(firstHand)}

\* variant: no check of the landmark count, so reading landmark 20 of a short hand throws
classifyGestureUnchecked(landmarks, lang) ==
    IF Len(landmarks) = 0 THEN {Null}
    ELSE IF Len(landmarks[1]) < LandmarkCount THEN {Raised}
    ELSE classifyHand(landmarks[1], lang)

classifyGesture(landmarks, lang) ==
    IF Len(landmarks) = 0 THEN {Null}
    ELSE IF Len(landmarks[1]) < LandmarkCount THEN {Null}
    ELSE classifyHand(landmarks[1], lang)

-----------------------------------------------------------------------------
(* Hand samples: a hand is built from one posture per finger (the vertical order
   of tip, PIP and MCP), a horizontal layout and a wrist height *)

Fingers == {"thumb", "index", "middle", "ring", "pinky"}

\* y of <<tip, pip, mcp>>: the six strict vertical orders of the three joints
PostureY(p) ==
    CASE p = "extended" -> <<20, 30, 40>>      \* tip < pip < mcp
      [] p = "hooked"   -> <<35, 45, 40>>      \* tip < mcp < pip
      [] p = "bent"     -> <<35, 30, 40>>      \* pip < tip < mcp
      [] p = "folded"   -> <<45, 30, 40>>      \* pip < mcp < tip
      [] p = "low"      -> <<45, 50, 40>>      \* mcp < tip < pip
      [] p = "curled"   -> <<60, 50, 40>>      \* mcp < pip < tip

Postures == {"extended", "hooked", "bent", "folded", "low", "curled"}

\* x of the wrist, the five fingertips and the index and pinky MCP
Layouts ==
    {[wrist |-> 50, thumb |-> 5, index |-> 20, middle |-> 40,
      ring |-> 60, pinky |-> 80, indexMcp |-> 20, pinkyMcp |-> 80],
     [wrist |-> 50, thumb |-> 47, index |-> 46, middle |-> 48,
      ring |-> 50, pinky |-> 52, indexMcp |-> 45, pinkyMcp |-> 55]}

WristHeights == {20, 50, 80}

\* for each landmark 0..20: the finger it belongs to and which of <<tip, pip, mcp>> it is
\* (joint 0: a landmark no posture places, i.e. the wrist and landmarks 1, 7, 11, 15, 19,
\* which the classifier never reads and which sit at the palm centre)
LandmarkFinger ==
    <<"", "", "thumb", "thumb", "thumb", "index", "index", "", "index",
      "middle", "middle", "", "middle", "ring", "ring", "", "ring",
      "pinky", "pinky", "", "pinky">>

LandmarkJoint == <<0, 0, 3, 2, 1, 3, 2, 0, 1, 3, 2, 0, 1, 3, 2, 0, 1, 3, 2, 0, 1>>

MakeHand(posture, layout, wristY) ==
    [i \in 1..LandmarkCount |->
        [x |-> IF i = 1 THEN layout.wrist
               ELSE IF LandmarkJoint[i] = 1 THEN layout[LandmarkFinger[i]]
               ELSE IF i = 6 THEN layout.indexMcp
               ELSE IF i = 18 THEN layout.pinkyMcp
               ELSE 50,
         y |-> IF i = 1 THEN wristY
               ELSE IF LandmarkJoint[i] # 0 THEN PostureY(posture[LandmarkFinger[i]])[LandmarkJoint[i]]
               ELSE 40]]

HandSamples(layouts) ==
    {MakeHand(posture, layout, wristY) :
        posture \in [Fingers -> Postures], layout \in layouts, wristY \in WristHeights}

\* a hand the tracker reported with fewer than 21 landmarks
ShortHand(n) == [i \in 1..n |-> [x |-> 50, y |-> 40]]

\* Results of the tracking collaborator: multiHandLandmarks may be missing
Results(hs) == [hasLandmarks |-> TRUE, multiHandLandmarks |-> hs]

NoLandmarks == [hasLandmarks |-> FALSE, multiHandLandmarks |-> <<>>]

-----------------------------------------------------------------------------
(* Sentence buffer *)

\* variant: the new label is compared with the oldest entry instead of the newest
addToSentenceBufferFirst(buf, sign) ==
    IF Len(buf) = 0 \/ buf[1] # sign
    THEN LET pushed == Append(buf, sign)
         IN  IF Len(pushed) > BufferCapacity THEN Tail(pushed) ELSE pushed
    ELSE buf

\* variant: at capacity the newest entry is dropped instead of the oldest
addToSentenceBufferPop(buf, sign) ==
    IF Len(buf) = 0 \/ buf[Len(buf)] # sign
    THEN LET pushed == Append(buf, sign)
         IN  IF Len(pushed) > BufferCapacity THEN SubSeq(pushed, 1, BufferCapacity) ELSE pushed
    ELSE buf

addToSentenceBuffer(buf, sign) ==
    IF Len(buf) = 0 \/ buf[Len(buf)] # sign
    THEN LET pushed == Append(buf, sign)
         IN  IF Len(pushed) > BufferCapacity THEN Tail(pushed) ELSE pushed
    ELSE buf

Includes(signs, s) == \E i \in 1..Len(signs) : signs[i] = s

-----------------------------------------------------------------------------
(* Sentence analysis *)

\* variant: the elapsed time is not consulted
shouldAnalyzeEveryFrame(enabled, t, last, buf) ==
    enabled /\ Len(buf) >= 2

\* variant: the interval compared with >= instead of >
shouldAnalyzeInclusive(enabled, t, last, buf) ==
    enabled /\ t - last >= sentenceAnalysisInterval /\ Len(buf) >= 2

\* the condition of onResults under which analyzeSentenceConstruction is called
shouldAnalyze(enabled, t, last, buf) ==
    enabled /\ t - last > sentenceAnalysisInterval /\ Len(buf) >= 2

\* variant: the analysis result carries the tag of a per-frame result
SentenceResultUntagged(text, confidence) ==
    [sign |-> text, confidence |-> confidence, gestureType |-> "static", handShape |-> "analysis"]

SentenceResult(text, confidence) ==
    [sign |-> text, confidence |-> confidence, gestureType |-> "sentence", handShape |-> "analysis"]

\* variant: the colour rule tried before the "I love you" rule
basicAnalysisTextColourFirst(signs) ==
    IF Includes(signs, "Hello") /\ Includes(signs, "How are you?")
    THEN "Greeting sequence detected. Good flow between hello and inquiry."
    ELSE IF \E i \in 1..Len(signs) : signs[i] \in {"Red", "Blue", "Green", "Yellow"}
    THEN "Color description detected. Consider adding size or object context."
    ELSE IF Includes(signs, "I") /\ Includes(signs, "Love") /\ Includes(signs, "You")
    THEN "Complete sentence: \"I love you\". Well-structured emotional expression."
    ELSE IF Len(signs) >= 3
    THEN ToString(Len(signs)) \o " signs detected. Check sign order and consider adding connecting signs."
    ELSE ""

\* the analysis text basicSentenceAnalysis selects ("" when no rule matches)
basicAnalysisText(signs) ==
    IF Includes(signs, "Hello") /\ Includes(signs, "How are you?")
    THEN "Greeting sequence detected. Good flow between hello and inquiry."
    ELSE IF Includes(signs, "I") /\ Includes(signs, "Love") /\ Includes(signs, "You")
    THEN "Complete sentence: \"I love you\". Well-structured emotional expression."
    ELSE IF \E i \in 1..Len(signs) : signs[i] \in {"Red", "Blue", "Green", "Yellow"}
    THEN "Color description detected. Consider adding size or object context."
    ELSE IF Len(signs) >= 3
    THEN ToString(Len(signs)) \o " signs detected. Check sign order and consider adding connecting signs."
    ELSE ""

\* basicSentenceAnalysis(): the deliveries it makes, as <<callback, result>> pairs
basicSentenceAnalysis(buf, callback) ==
    IF Len(buf) < 2 \/ callback = 0 THEN <<>>
    ELSE LET analysis == basicAnalysisText(buf)
         IN  IF analysis # ""
             THEN <<[cb |-> callback, result |-> SentenceResult("Flow Analysis: " \o analysis, 80)]>>
             ELSE <<>>

\* the calls to chat.completions.create a run of analyzeSentenceConstruction leaves
\* outstanding, each remembered with the callback that was registered when it was issued
Issued(calls, session) == [i \in 1..Len(calls) |-> [request |-> calls[i], session |-> session]]

\* the synchronous part of analyzeSentenceConstruction(): the calls to
\* chat.completions.create it leaves outstanding
analyzeSentenceConstruction(client, buf) ==
    IF ~client \/ Len(buf) < 2 THEN <<>>
    ELSE <<[signsSequence |-> buf]>>

-----------------------------------------------------------------------------
(* Tracking collaborator instances and the frame loop *)

NoHands == [id |-> 0, configured |-> FALSE, minDetectionConfidence |-> 0, minTrackingConfidence |-> 0]

\* new Hands({...}) before setOptions and onResults have run
NewHands(id) == [id |-> id, configured |-> FALSE, minDetectionConfidence |-> 0, minTrackingConfidence |-> 0]

\* after setOptions (thresholds in tenths: sensitivity / 10) and onResults(this.onResults)
ConfiguredHands(id, sens) ==
    [id |-> id, configured |-> TRUE, minDetectionConfidence |-> sens, minTrackingConfidence |-> sens]

InitFailures == {"none", "constructor", "setOptions"}

\* variant: isInitialized is set as soon as the instance is constructed, before setOptions
initializeEarlyFlag(fail, st) ==
    IF st.isInitialized THEN [st EXCEPT !.threw = FALSE]
    ELSE IF fail = "constructor" THEN [st EXCEPT !.threw = TRUE]
    ELSE IF fail = "setOptions"
    THEN [st EXCEPT !.hands = NewHands(st.nextHandsId),
                    !.isInitialized = TRUE,
                    !.nextHandsId = st.nextHandsId + 1,
                    !.threw = TRUE]
    ELSE [st EXCEPT !.hands = ConfiguredHands(st.nextHandsId, st.sensitivity),
                    !.openai = IF apiKey THEN TRUE ELSE st.openai,
                    !.isInitialized = TRUE,
                    !.nextHandsId = st.nextHandsId + 1,
                    !.threw = FALSE]

\* initialize() run on the fields st: the fields it leaves and whether it threw,
\* for each point at which the construction can fail
initialize(fail, st) ==
    IF st.isInitialized THEN [st EXCEPT !.threw = FALSE]
    ELSE IF fail = "constructor" THEN [st EXCEPT !.threw = TRUE]
    ELSE IF fail = "setOptions"
    THEN [st EXCEPT !.hands = NewHands(st.nextHandsId),
                    !.nextHandsId = st.nextHandsId + 1,
                    !.threw = TRUE]
    ELSE [st EXCEPT !.hands = ConfiguredHands(st.nextHandsId, st.sensitivity),
                    !.openai = IF apiKey THEN TRUE ELSE st.openai,
                    !.isInitialized = TRUE,
                    !.nextHandsId = st.nextHandsId + 1,
                    !.threw = FALSE]

\* the fields initialize() reads and writes
InitFields(inited, sens) ==
    [hands |-> hands, openai |-> openai, isInitialized |-> inited, sensitivity |-> sens,
     nextHandsId |-> nextHandsId, threw |-> FALSE]

SendingLoop(h) == [pc |-> "sending", inst |-> h, called |-> FALSE, raf |-> 0]

WaitingLoop(id) == [pc |-> "raf", inst |-> NoHands, called |-> FALSE, raf |-> id]

\* variant: the frame is sent without looking at the video element's paused / ended flags
processFrameUnpolled(h, paused, afid, nraf) ==
    IF h # NoHands
    THEN [loop |-> SendingLoop(h), animationFrameId |-> afid, nextRafId |-> nraf,
          sent |-> TRUE, scheduled |-> FALSE]
    ELSE [loop |-> WaitingLoop(nraf), animationFrameId |-> nraf, nextRafId |-> nraf + 1,
          sent |-> FALSE, scheduled |-> TRUE]

\* one run of processFrame up to its await (or to its end when nothing is sent):
\* the position of the loop, animationFrameId and the next rAF handle afterwards
processFrame(h, paused, afid, nraf) ==
    IF h # NoHands /\ ~paused
    THEN [loop |-> SendingLoop(h), animationFrameId |-> afid, nextRafId |-> nraf,
          sent |-> TRUE, scheduled |-> FALSE]
    ELSE [loop |-> WaitingLoop(nraf), animationFrameId |-> nraf, nextRafId |-> nraf + 1,
          sent |-> FALSE, scheduled |-> TRUE]

\* observation of a step: the operation, its argument, the buffer length before it,
\* and what it did (frame sent, animation frame requested, label pushed, analysis
\* triggered, local analysis run, exception raised, promise rejected, results delivered)
Obs(op) ==
    [op |-> op, arg |-> "", before |-> 0, results |-> NoLandmarks, classified |-> Null,
     sent |-> FALSE, scheduled |-> FALSE, pushed |-> FALSE, triggered |-> FALSE,
     localRan |-> FALSE, raised |-> FALSE, rejected |-> FALSE, out |-> <<>>]

-----------------------------------------------------------------------------
(* Inputs of the pipeline specification *)

AllPostures(p) == [f \in Fingers |-> p]

WideLayout == CHOOSE l \in Layouts : l.indexMcp = 20

FistHand == MakeHand(AllPostures("curled"), WideLayout, 80)

OpenHand == MakeHand(AllPostures("extended"), WideLayout, 80)

PointHand == MakeHand([AllPostures("curled") EXCEPT !["index"] = "extended"], WideLayout, 80)

\* ring and pinky hooked, the rest folded: no tier matches before the random fallback
UnclearHand ==
    MakeHand([AllPostures("folded") EXCEPT !["ring"] = "hooked", !["pinky"] = "hooked"],
             WideLayout, 80)

PipelineResults ==
    {NoLandmarks, Results(<<>>), Results(<<ShortHand(20)>>),
     Results(<<FistHand>>), Results(<<OpenHand, ShortHand(20)>>), Results(<<PointHand>>)}

SettingsChoices == {<<DefaultSensitivity, ASL>>, <<3, KSL>>}

TickSteps == {1500}

ReplyTexts == {"", "Likely a greeting."}

-----------------------------------------------------------------------------
(* Initial state: the module-level instance right after construction *)

NotClassified == [sign |-> NoSign, confidence |-> 0, gestureType |-> "pending", handShape |-> "pending"]

InitCommon ==
    /\ hands = NoHands
    /\ animationFrameId = 0
    /\ isInitialized = FALSE
    /\ onResultsCallback = 0
    /\ sensitivity = DefaultSensitivity
    /\ openai = FALSE
    /\ detectedSignsBuffer = <<>>
    /\ sentenceConstructionEnabled = TRUE
    /\ lastSentenceAnalysis = 0
    /\ now = sentenceAnalysisInterval + 2000
    /\ videoPaused = FALSE
    /\ pendingStarts = <<>>
    /\ loops = <<>>
    /\ analyses = <<>>
    /\ nextRafId = 1
    /\ nextHandsId = 1
    /\ nextCallId = 1
    /\ obs = Obs("init")

Init ==
    /\ InitCommon
    /\ language = ASL
    /\ apiKey \in BOOLEAN
    /\ frame = <<>>
    /\ detected = NotClassified

\* a deployment without VITE_OPENAI_API_KEY
InitLoop ==
    /\ InitCommon
    /\ language = ASL
    /\ apiKey = FALSE
    /\ frame = <<>>
    /\ detected = NotClassified

-----------------------------------------------------------------------------
(* startDetection *)

\* startDetection from `this.onResultsCallback = onResults` to its end
StartBody(cb, op) ==
    /\ onResultsCallback' = cb
    /\ IF hands # NoHands
       THEN LET r == processFrame(hands, videoPaused, animationFrameId, nextRafId)
            IN  /\ r.nextRafId <= MaxRaf + 1
                /\ loops' = [k \in DOMAIN loops \cup {cb} |-> IF k = cb THEN r.loop ELSE loops[k]]
                /\ animationFrameId' = r.animationFrameId
                /\ nextRafId' = r.nextRafId
                /\ obs' = [Obs(op) EXCEPT !.sent = r.sent, !.scheduled = r.scheduled]
       ELSE /\ UNCHANGED <<loops, animationFrameId, nextRafId>>
            /\ obs' = Obs(op)

\* a call of startDetection, up to its first suspension or to its end
StartDetection ==
    /\ nextCallId <= MaxStarts
    /\ nextCallId' = nextCallId + 1
    /\ IF ~isInitialized
       THEN \E fail \in InitFailures :
                /\ LET r == initialize(fail, InitFields(isInitialized, sensitivity))
                   IN  /\ r.nextHandsId <= MaxInstances + 1
                       /\ hands' = r.hands
                       /\ openai' = r.openai
                       /\ isInitialized' = r.isInitialized
                       /\ nextHandsId' = r.nextHandsId
                       /\ pendingStarts' = Append(pendingStarts, [cb |-> nextCallId, threw |-> r.threw])
                /\ UNCHANGED <<animationFrameId, onResultsCallback, loops, nextRafId>>
                /\ obs' = Obs("startDetection")
       ELSE /\ UNCHANGED <<hands, openai, isInitialized, nextHandsId, pendingStarts>>
            /\ StartBody(nextCallId, "startDetection")
    /\ UNCHANGED <<sensitivity, language, detectedSignsBuffer, sentenceConstructionEnabled,
                   lastSentenceAnalysis, apiKey, now, videoPaused, analyses, harnessVars>>

\* the continuation of startDetection after `await this.initialize()` (a microtask)
StartResume ==
    /\ pendingStarts # <<>>
    /\ pendingStarts' = Tail(pendingStarts)
    /\ UNCHANGED <<hands, openai, isInitialized, nextHandsId>>
    /\ IF Head(pendingStarts).threw
       THEN /\ UNCHANGED <<animationFrameId, onResultsCallback, loops, nextRafId>>
            /\ obs' = [Obs("startResume") EXCEPT !.rejected = TRUE]
       ELSE StartBody(Head(pendingStarts).cb, "startResume")
    /\ UNCHANGED <<sensitivity, language, detectedSignsBuffer, sentenceConstructionEnabled,
                   lastSentenceAnalysis, apiKey, now, videoPaused, analyses, nextCallId,
                   harnessVars>>

-----------------------------------------------------------------------------
(* stopDetection, updateSettings, the buffer accessors *)

\* cancelAnimationFrame(id): the loop waiting on that handle, if any, never runs again
cancelAnimationFrame(ls, id) ==
    [k \in {j \in DOMAIN ls : ~(ls[j].pc = "raf" /\ ls[j].raf = id)} |-> ls[k]]

\* (the observation marks a call that directly follows another stopDetection)
StopDetection ==
    /\ loops' = IF animationFrameId # 0 THEN cancelAnimationFrame(loops, animationFrameId) ELSE loops
    /\ animationFrameId' = 0
    /\ onResultsCallback' = 0
    /\ obs' = [Obs("stopDetection") EXCEPT
                  !.arg = IF obs.op = "stopDetection" THEN "again" ELSE ""]
    /\ UNCHANGED <<hands, isInitialized, sensitivity, language, openai, detectedSignsBuffer,
                   sentenceConstructionEnabled, lastSentenceAnalysis, apiKey, now, videoPaused,
                   pendingStarts, analyses, nextRafId, nextHandsId, nextCallId, harnessVars>>

\* variant: the collected labels and the analysis timestamp are reset with the settings
UpdateSettingsResetting(newSensitivity, newLanguage) ==
    /\ sensitivity' = newSensitivity
    /\ language' = newLanguage
    /\ detectedSignsBuffer' = <<>>
    /\ lastSentenceAnalysis' = 0
    /\ IF isInitialized
       THEN \E fail \in InitFailures :
                /\ LET r == initialize(fail, InitFields(FALSE, newSensitivity))
                   IN  /\ r.nextHandsId <= MaxInstances + 1
                       /\ hands' = r.hands
                       /\ openai' = r.openai
                       /\ isInitialized' = r.isInitialized
                       /\ nextHandsId' = r.nextHandsId
       ELSE UNCHANGED <<hands, openai, isInitialized, nextHandsId>>
    /\ obs' = Obs("updateSettings")
    /\ UNCHANGED <<animationFrameId, onResultsCallback,
                   sentenceConstructionEnabled, apiKey, now, videoPaused,
                   pendingStarts, loops, analyses, nextRafId, nextCallId, harnessVars>>

UpdateSettings(newSensitivity, newLanguage) ==
    /\ sensitivity' = newSensitivity
    /\ language' = newLanguage
    /\ IF isInitialized
       THEN \E fail \in InitFailures :
                /\ LET r == initialize(fail, InitFields(FALSE, newSensitivity))
                   IN  /\ r.nextHandsId <= MaxInstances + 1
                       /\ hands' = r.hands
                       /\ openai' = r.openai
                       /\ isInitialized' = r.isInitialized
                       /\ nextHandsId' = r.nextHandsId
       ELSE UNCHANGED <<hands, openai, isInitialized, nextHandsId>>
    /\ obs' = Obs("updateSettings")
    /\ UNCHANGED <<animationFrameId, onResultsCallback, detectedSignsBuffer,
                   sentenceConstructionEnabled, lastSentenceAnalysis, apiKey, now, videoPaused,
                   pendingStarts, loops, analyses, nextRafId, nextCallId, harnessVars>>

ClearSentenceBuffer ==
    /\ detectedSignsBuffer' = <<>>
    /\ obs' = Obs("clearSentenceBuffer")
    /\ UNCHANGED <<hands, animationFrameId, isInitialized, onResultsCallback, sensitivity,
                   language, openai, sentenceConstructionEnabled, lastSentenceAnalysis,
                   envVars, harnessVars>>

SetSentenceConstruction(enabled) ==
    /\ sentenceConstructionEnabled' = enabled
    /\ obs' = Obs("setSentenceConstruction")
    /\ UNCHANGED <<hands, animationFrameId, isInitialized, onResultsCallback, sensitivity,
                   language, openai, detectedSignsBuffer, lastSentenceAnalysis,
                   envVars, harnessVars>>

-----------------------------------------------------------------------------
(* Events of the browser's task queue.  They run only when no continuation of
   startDetection is queued: microtasks run before the next task. *)

TaskBoundary == pendingStarts = <<>>

SetLoop(k, l) == [loops EXCEPT ![k] = l]

\* variant: the handler awaits the analysis it started before it delivers the frame's result
onResultsAwaiting(results, d) ==
    IF results.hasLandmarks /\ Len(results.multiHandLandmarks) > 0
    THEN IF d = Raised
         THEN /\ obs' = [Obs("onResults") EXCEPT !.results = results, !.classified = d,
                                                 !.raised = TRUE]
              /\ UNCHANGED <<detectedSignsBuffer, lastSentenceAnalysis, analyses>>
         ELSE IF onResultsCallback # 0 /\ d # Null /\ d.confidence > ConfidenceGate
         THEN LET buf == addToSentenceBuffer(detectedSignsBuffer, d.sign)
                  due == shouldAnalyze(sentenceConstructionEnabled, now, lastSentenceAnalysis, buf)
                  started == IF due THEN analyzeSentenceConstruction(openai, buf) ELSE <<>>
              IN  /\ Len(analyses) + Len(started) <= MaxAnalyses
                  /\ detectedSignsBuffer' = buf
                  /\ analyses' = analyses \o Issued(started, onResultsCallback)
                  /\ lastSentenceAnalysis' = IF due THEN now ELSE lastSentenceAnalysis
                  /\ obs' = [Obs("onResults") EXCEPT
                                !.results = results, !.classified = d, !.arg = d.sign,
                                !.before = Len(detectedSignsBuffer), !.pushed = TRUE, !.triggered = due,
                                !.out = IF started # <<>> THEN <<>>
                                        ELSE <<[cb |-> onResultsCallback, result |-> d]>>]
         ELSE /\ obs' = [Obs("onResults") EXCEPT !.results = results, !.classified = d]
              /\ UNCHANGED <<detectedSignsBuffer, lastSentenceAnalysis, analyses>>
    ELSE /\ obs' = [Obs("onResults") EXCEPT !.results = results]
         /\ UNCHANGED <<detectedSignsBuffer, lastSentenceAnalysis, analyses>>

\* variant: the result is forwarded only when its label changed the buffer
onResultsOnChange(results, d) ==
    IF results.hasLandmarks /\ Len(results.multiHandLandmarks) > 0
    THEN IF d = Raised
         THEN /\ obs' = [Obs("onResults") EXCEPT !.results = results, !.classified = d,
                                                 !.raised = TRUE]
              /\ UNCHANGED <<detectedSignsBuffer, lastSentenceAnalysis, analyses>>
         ELSE IF onResultsCallback # 0 /\ d # Null /\ d.confidence > ConfidenceGate
         THEN LET buf == addToSentenceBuffer(detectedSignsBuffer, d.sign)
                  due == shouldAnalyze(sentenceConstructionEnabled, now, lastSentenceAnalysis, buf)
                  started == IF due THEN analyzeSentenceConstruction(openai, buf) ELSE <<>>
              IN  /\ Len(analyses) + Len(started) <= MaxAnalyses
                  /\ detectedSignsBuffer' = buf
                  /\ analyses' = analyses \o Issued(started, onResultsCallback)
                  /\ lastSentenceAnalysis' = IF due THEN now ELSE lastSentenceAnalysis
                  /\ obs' = [Obs("onResults") EXCEPT
                                !.results = results, !.classified = d, !.arg = d.sign,
                                !.before = Len(detectedSignsBuffer), !.pushed = TRUE, !.triggered = due,
                                !.out = IF buf = detectedSignsBuffer THEN <<>>
                                        ELSE <<[cb |-> onResultsCallback, result |-> d]>>]
         ELSE /\ obs' = [Obs("onResults") EXCEPT !.results = results, !.classified = d]
              /\ UNCHANGED <<detectedSignsBuffer, lastSentenceAnalysis, analyses>>
    ELSE /\ obs' = [Obs("onResults") EXCEPT !.results = results]
         /\ UNCHANGED <<detectedSignsBuffer, lastSentenceAnalysis, analyses>>

\* onResults(results): the landmark callback of a Hands instance, with the result d
\* that classifyGesture returned
\* variant: the handler does not look at the callback before it pushes and triggers
onResultsUnregistered(results, d) ==
    IF results.hasLandmarks /\ Len(results.multiHandLandmarks) > 0
    THEN IF d = Raised
         THEN /\ obs' = [Obs("onResults") EXCEPT !.results = results, !.classified = d,
                                                 !.raised = TRUE]
              /\ UNCHANGED <<detectedSignsBuffer, lastSentenceAnalysis, analyses>>
         ELSE IF d # Null /\ d.confidence > ConfidenceGate
         THEN LET buf == addToSentenceBuffer(detectedSignsBuffer, d.sign)
                  due == shouldAnalyze(sentenceConstructionEnabled, now, lastSentenceAnalysis, buf)
                  started == IF due THEN analyzeSentenceConstruction(openai, buf) ELSE <<>>
              IN  /\ Len(analyses) + Len(started) <= MaxAnalyses
                  /\ detectedSignsBuffer' = buf
                  /\ analyses' = analyses \o Issued(started, onResultsCallback)
                  /\ lastSentenceAnalysis' = IF due THEN now ELSE lastSentenceAnalysis
                  /\ obs' = [Obs("onResults") EXCEPT
                                !.results = results, !.classified = d, !.arg = d.sign,
                                !.before = Len(detectedSignsBuffer), !.pushed = TRUE, !.triggered = due,
                                !.out = IF onResultsCallback # 0
                                        THEN <<[cb |-> onResultsCallback, result |-> d]>>
                                        ELSE <<>>]
         ELSE /\ obs' = [Obs("onResults") EXCEPT !.results = results, !.classified = d]
              /\ UNCHANGED <<detectedSignsBuffer, lastSentenceAnalysis, analyses>>
    ELSE /\ obs' = [Obs("onResults") EXCEPT !.results = results]
         /\ UNCHANGED <<detectedSignsBuffer, lastSentenceAnalysis, analyses>>

onResults(results, d) ==
    IF results.hasLandmarks /\ Len(results.multiHandLandmarks) > 0
    THEN IF d = Raised
         THEN /\ obs' = [Obs("onResults") EXCEPT !.results = results, !.classified = d,
                                                 !.raised = TRUE]
              /\ UNCHANGED <<detectedSignsBuffer, lastSentenceAnalysis, analyses>>
         ELSE IF onResultsCallback # 0 /\ d # Null /\ d.confidence > ConfidenceGate
         THEN LET buf == addToSentenceBuffer(detectedSignsBuffer, d.sign)
                  due == shouldAnalyze(sentenceConstructionEnabled, now, lastSentenceAnalysis, buf)
                  started == IF due THEN analyzeSentenceConstruction(openai, buf) ELSE <<>>
              IN  /\ Len(analyses) + Len(started) <= MaxAnalyses
                  /\ detectedSignsBuffer' = buf
                  /\ analyses' = analyses \o Issued(started, onResultsCallback)
                  /\ lastSentenceAnalysis' = IF due THEN now ELSE lastSentenceAnalysis
                  /\ obs' = [Obs("onResults") EXCEPT
                                !.results = results, !.classified = d, !.arg = d.sign,
                                !.before = Len(detectedSignsBuffer), !.pushed = TRUE, !.triggered = due,
                                !.out = <<[cb |-> onResultsCallback, result |-> d]>>]
         ELSE /\ obs' = [Obs("onResults") EXCEPT !.results = results, !.classified = d]
              /\ UNCHANGED <<detectedSignsBuffer, lastSentenceAnalysis, analyses>>
    ELSE /\ obs' = [Obs("onResults") EXCEPT !.results = results]
         /\ UNCHANGED <<detectedSignsBuffer, lastSentenceAnalysis, analyses>>

\* the instance a frame was sent to reports its landmarks
LandmarkCallback(k, results) ==
    /\ TaskBoundary
    /\ k \in DOMAIN loops
    /\ loops[k].pc = "sending"
    /\ ~loops[k].called
    /\ loops[k].inst.configured
    /\ loops' = SetLoop(k, [loops[k] EXCEPT !.called = TRUE])
    /\ \E d \in IF results.hasLandmarks
                THEN classifyGesture(results.multiHandLandmarks, language)
                ELSE {Null} :
           onResults(results, d)
    /\ UNCHANGED <<hands, animationFrameId, isInitialized, onResultsCallback, sensitivity,
                   language, openai, sentenceConstructionEnabled, apiKey, now, videoPaused,
                   pendingStarts, nextRafId, nextHandsId, nextCallId, harnessVars>>

\* `await this.hands.send(...)` returns: processFrame requests the next animation frame
SendDone(k) ==
    /\ TaskBoundary
    /\ k \in DOMAIN loops
    /\ loops[k].pc = "sending"
    /\ nextRafId <= MaxRaf
    /\ loops' = SetLoop(k, WaitingLoop(nextRafId))
    /\ animationFrameId' = nextRafId
    /\ nextRafId' = nextRafId + 1
    /\ obs' = [Obs("sendDone") EXCEPT !.scheduled = TRUE]
    /\ UNCHANGED <<hands, isInitialized, onResultsCallback, sensitivity, language, openai,
                   detectedSignsBuffer, sentenceConstructionEnabled, lastSentenceAnalysis,
                   apiKey, now, videoPaused, pendingStarts, analyses, nextHandsId, nextCallId,
                   harnessVars>>

\* the animation frame a loop waits for arrives: processFrame runs again
RafFire(k) ==
    /\ TaskBoundary
    /\ k \in DOMAIN loops
    /\ loops[k].pc = "raf"
    /\ LET r == processFrame(hands, videoPaused, animationFrameId, nextRafId)
       IN  /\ r.nextRafId <= MaxRaf + 1
           /\ loops' = SetLoop(k, r.loop)
           /\ animationFrameId' = r.animationFrameId
           /\ nextRafId' = r.nextRafId
           /\ obs' = [Obs("processFrame") EXCEPT !.sent = r.sent, !.scheduled = r.scheduled]
    /\ UNCHANGED <<hands, isInitialized, onResultsCallback, sensitivity, language, openai,
                   detectedSignsBuffer, sentenceConstructionEnabled, lastSentenceAnalysis,
                   apiKey, now, videoPaused, pendingStarts, analyses, nextHandsId, nextCallId,
                   harnessVars>>

RemoveAt(seq, i) == SubSeq(seq, 1, i - 1) \o SubSeq(seq, i + 1, Len(seq))

\* chat.completions.create resolves with the content text (possibly empty)
AnalysisResolve(i, text) ==
    /\ TaskBoundary
    /\ i \in 1..Len(analyses)
    /\ analyses' = RemoveAt(analyses, i)
    /\ obs' = [Obs("analysisResolved") EXCEPT
                  !.out = IF text # "" /\ onResultsCallback # 0
                          THEN <<[cb |-> onResultsCallback,
                                  result |-> SentenceResult("Sentence Analysis: " \o text, 90)]>>
                          ELSE <<>>]
    /\ UNCHANGED <<svcVars, apiKey, now, videoPaused, pendingStarts, loops, nextRafId,
                   nextHandsId, nextCallId, harnessVars>>

\* variant: the catch block issues the call again after running the local analysis
AnalysisFailRetry(i) ==
    /\ TaskBoundary
    /\ i \in 1..Len(analyses)
    /\ analyses' = Append(RemoveAt(analyses, i), analyses[i])
    /\ obs' = [Obs("analysisFailed") EXCEPT
                  !.localRan = TRUE,
                  !.out = basicSentenceAnalysis(detectedSignsBuffer, onResultsCallback)]
    /\ UNCHANGED <<svcVars, apiKey, now, videoPaused, pendingStarts, loops, nextRafId,
                   nextHandsId, nextCallId, harnessVars>>

\* variant: the catch block only logs and does not call basicSentenceAnalysis
AnalysisFailSilent(i) ==
    /\ TaskBoundary
    /\ i \in 1..Len(analyses)
    /\ analyses' = RemoveAt(analyses, i)
    /\ obs' = Obs("analysisFailed")
    /\ UNCHANGED <<svcVars, apiKey, now, videoPaused, pendingStarts, loops, nextRafId,
                   nextHandsId, nextCallId, harnessVars>>

\* chat.completions.create rejects, or reading the completion throws: the catch block
AnalysisFail(i) ==
    /\ TaskBoundary
    /\ i \in 1..Len(analyses)
    /\ analyses' = RemoveAt(analyses, i)
    /\ obs' = [Obs("analysisFailed") EXCEPT
                  !.localRan = TRUE,
                  !.out = basicSentenceAnalysis(detectedSignsBuffer, onResultsCallback)]
    /\ UNCHANGED <<svcVars, apiKey, now, videoPaused, pendingStarts, loops, nextRafId,
                   nextHandsId, nextCallId, harnessVars>>

Tick ==
    /\ TaskBoundary
    /\ \E d \in TickSteps : now + d <= MaxNow /\ now' = now + d
    /\ obs' = Obs("tick")
    /\ UNCHANGED <<svcVars, apiKey, videoPaused, pendingStarts, loops, analyses, nextRafId,
                   nextHandsId, nextCallId, harnessVars>>

\* the video element is paused or resumed
VideoToggle ==
    /\ TaskBoundary
    /\ videoPaused' = ~videoPaused
    /\ obs' = Obs("video")
    /\ UNCHANGED <<svcVars, apiKey, now, pendingStarts, loops, analyses, nextRafId,
                   nextHandsId, nextCallId, harnessVars>>

-----------------------------------------------------------------------------
(* The frame loop: start, stop and settings calls in any order against the
   browser's frame, send and landmark events *)

LoopResults == {NoLandmarks, Results(<<FistHand>>)}

Next ==
    \/ StartDetection
    \/ StartResume
    \/ StopDetection
    \/ \E c \in SettingsChoices : UpdateSettings(c[1], c[2])
    \/ \E k \in 1..MaxStarts, r \in LoopResults : LandmarkCallback(k, r)
    \/ \E k \in 1..MaxStarts : SendDone(k)
    \/ \E k \in 1..MaxStarts : RafFire(k)
    \/ VideoToggle

Spec == InitLoop /\ [][Next]_vars

-----------------------------------------------------------------------------
(* The sentence analysis: one detection session, the clock, the buffer accessors
   and the replies of the language service *)

NextAnalysis ==
    \/ StartDetection /\ nextCallId = 1
    \/ StartResume
    \/ StopDetection
    \/ ClearSentenceBuffer
    \/ \E e \in BOOLEAN : SetSentenceConstruction(e)
    \/ \E k \in 1..MaxStarts, r \in PipelineResults : LandmarkCallback(k, r)
    \/ \E k \in 1..MaxStarts : SendDone(k)
    \/ \E k \in 1..MaxStarts : RafFire(k)
    \/ \E i \in 1..MaxAnalyses, t \in ReplyTexts : AnalysisResolve(i, t)
    \/ \E i \in 1..MaxAnalyses : AnalysisFail(i)
    \/ Tick

SpecAnalysis == Init /\ [][NextAnalysis]_vars

-----------------------------------------------------------------------------
(* The sentence buffer on its own: pushes and clears in any order *)

BufferLabels == {"Hello", "How are you?", "Fist"}

Push(sign) ==
    /\ detectedSignsBuffer' = addToSentenceBuffer(detectedSignsBuffer, sign)
    /\ obs' = [Obs("addToSentenceBuffer") EXCEPT
                  !.arg = sign, !.before = Len(detectedSignsBuffer), !.pushed = TRUE]
    /\ UNCHANGED <<hands, animationFrameId, isInitialized, onResultsCallback, sensitivity,
                   language, openai, sentenceConstructionEnabled, lastSentenceAnalysis,
                   envVars, harnessVars>>

NextBuffer ==
    \/ \E sign \in BufferLabels : Push(sign)
    \/ ClearSentenceBuffer

SpecBuffer == Init /\ [][NextBuffer]_vars

-----------------------------------------------------------------------------
(* The classifier on its own: classifyGesture applied to every sample *)

ClassifyInputs(layouts) ==
    {<<>>, <<ShortHand(0)>>, <<ShortHand(20)>>, <<ShortHand(20), OpenHand>>}
        \cup {<<h>> : h \in HandSamples(layouts)}
        \cup {<<OpenHand, ShortHand(20)>>}

\* the language is the one a call of updateSettings before the first start left
InitClassify ==
    /\ InitCommon
    /\ language \in {ASL, KSL}
    /\ apiKey = FALSE
    /\ frame \in ClassifyInputs(Layouts)
    /\ detected = NotClassified

Classify ==
    /\ detected = NotClassified
    /\ detected' \in classifyGesture(frame, language)
    /\ obs' = Obs("classifyGesture")
    /\ UNCHANGED <<svcVars, envVars, frame>>

NextClassify == Classify

SpecClassify == InitClassify /\ [][NextClassify]_vars

-----------------------------------------------------------------------------
(* Properties of the sign buffer (SpecBuffer) *)

\* C1: after any sequence of pushes and clears the sign buffer holds at most ten
\* labels, and no two adjacent entries are equal.
C1_BufferBoundedNoAdjacentRepeat ==
    /\ Len(detectedSignsBuffer) <= BufferCapacity
    /\ \A i \in 1..(Len(detectedSignsBuffer) - 1) :
           detectedSignsBuffer[i] # detectedSignsBuffer[i + 1]

\* a push of a new label onto a buffer that already held ten
C1_FullBufferPushed ==
    /\ obs.op = "addToSentenceBuffer"
    /\ obs.before = BufferCapacity
    /\ Len(detectedSignsBuffer) = BufferCapacity
    /\ detectedSignsBuffer[BufferCapacity] = obs.arg

\* C10: a push of a label equal to the last entry leaves the buffer unchanged;
\* otherwise the label is appended, and when that would make eleven entries the
\* oldest one is evicted.
C10_PushContract ==
    [][obs'.op = "addToSentenceBuffer" =>
         LET old == detectedSignsBuffer
             new == detectedSignsBuffer'
             label == obs'.arg
             n == Len(old)
         IN  IF n > 0 /\ old[n] = label
             THEN new = old
             ELSE IF n < BufferCapacity
             THEN /\ Len(new) = n + 1
                  /\ \A i \in 1..n : new[i] = old[i]
                  /\ new[n + 1] = label
             ELSE /\ Len(new) = BufferCapacity
                  /\ \A i \in 1..(BufferCapacity - 1) : new[i] = old[i + 1]
                  /\ new[BufferCapacity] = label]_vars

\* "Hello" pushed onto a buffer whose only entry is "Hello": the buffer did not grow
C10_RepeatedLabelDropped ==
    /\ obs.op = "addToSentenceBuffer"
    /\ obs.arg = "Hello"
    /\ obs.before = 1
    /\ detectedSignsBuffer = <<"Hello">>

-----------------------------------------------------------------------------
(* Properties of the landmark handler and the sentence analysis (SpecAnalysis) *)

\* a delivery of a result tagged as a sentence
IsSentenceDelivery(d) == d.result.gestureType = "sentence"

\* C5: without an API credential every triggered analysis runs the local pattern
\* analysis, which delivers a sentence-tagged result whenever one of its rules
\* matches the buffer (as it does for I, Love, You).
C5_NoCredentialUsesLocalAnalysis ==
    (obs.op = "onResults" /\ obs.triggered /\ ~openai) =>
        /\ obs.localRan
        /\ basicAnalysisText(detectedSignsBuffer) # "" =>
               \E i \in 1..Len(obs.out) : IsSentenceDelivery(obs.out[i])

\* C6: when the call to the language service fails, the local pattern analysis
\* runs on the buffer, nothing is thrown into the frame loop, and the service's
\* fields, the frame loops and the pending starts are left as they were.
C6_FailureFallsBackLocally ==
    [][obs'.op = "analysisFailed" =>
         /\ obs'.localRan
         /\ ~obs'.raised
         /\ ~obs'.rejected
         /\ UNCHANGED <<svcVars, loops, pendingStarts>>
         /\ \A i \in 1..Len(obs'.out) :
                /\ IsSentenceDelivery(obs'.out[i])
                /\ obs'.out[i].cb = onResultsCallback
         /\ (onResultsCallback # 0 /\ Len(detectedSignsBuffer) >= 3) => Len(obs'.out) = 1]_vars

\* a failed call after which the local analysis delivered its result
C6_LocalResultDelivered ==
    /\ obs.op = "analysisFailed"
    /\ obs.localRan
    /\ Len(obs.out) = 1
    /\ obs.out[1].result.sign =
           "Flow Analysis: 3 signs detected. Check sign order and consider adding connecting signs."

\* C7 as stated: with sentence construction enabled, the trigger the landmark
\* handler evaluates is true whenever the buffer holds at least two labels and
\* at least 3000 ms have passed since the last analysis, and false with one label.
C7_TriggerAtInterval ==
    [][(obs'.op = "onResults" /\ obs'.pushed /\ sentenceConstructionEnabled) =>
         /\ (Len(detectedSignsBuffer') >= 2
                /\ now - lastSentenceAnalysis >= sentenceAnalysisInterval) => obs'.triggered
         /\ Len(detectedSignsBuffer') = 1 => ~obs'.triggered]_vars

\* C7 (amended): with sentence construction enabled, the trigger is true exactly
\* when the buffer holds at least two labels and more than 3000 ms have passed
\* since the last analysis: false at exactly 3000 ms, false with one label.
C7_TriggerAfterInterval ==
    [][(obs'.op = "onResults" /\ obs'.pushed) =>
         (obs'.triggered <=>
              /\ sentenceConstructionEnabled
              /\ Len(detectedSignsBuffer') >= 2
              /\ now - lastSentenceAnalysis > sentenceAnalysisInterval)]_vars

\* the handler ran with two labels buffered exactly 3000 ms after the last analysis
C7_ExactlyAtInterval ==
    /\ obs.op = "onResults"
    /\ obs.pushed
    /\ ~obs.triggered
    /\ sentenceConstructionEnabled
    /\ Len(detectedSignsBuffer) >= 2
    /\ now - lastSentenceAnalysis = sentenceAnalysisInterval

\* a frame whose hand list is empty or whose first hand has fewer than 21 landmarks
IsUnusableFrame(results) ==
    /\ results.hasLandmarks
    /\ \/ Len(results.multiHandLandmarks) = 0
       \/ Len(results.multiHandLandmarks[1]) < LandmarkCount

\* C8: for a frame whose hand list is empty or whose first hand has fewer than 21
\* landmarks the classifier returns null, and the handler pushes nothing, triggers
\* no analysis and delivers nothing.
C8_UnusableFrameIgnored ==
    [][(obs'.op = "onResults" /\ IsUnusableFrame(obs'.results)) =>
         /\ classifyGesture(obs'.results.multiHandLandmarks, language) = {Null}
         /\ obs'.classified = Null
         /\ ~obs'.raised
         /\ ~obs'.pushed
         /\ ~obs'.triggered
         /\ obs'.out = <<>>
         /\ UNCHANGED <<detectedSignsBuffer, lastSentenceAnalysis, analyses>>]_vars

\* the handler ran, with a callback registered and labels buffered, on a frame
\* whose first hand has 20 landmarks
C8_ShortHandSeen ==
    /\ obs.op = "onResults"
    /\ obs.results = Results(<<ShortHand(20)>>)
    /\ onResultsCallback # 0
    /\ Len(detectedSignsBuffer) >= 1

-----------------------------------------------------------------------------
(* Properties of the classifier (SpecClassify) *)

\* the frame's first hand has all 21 landmarks and has been classified
FirstHandClassified ==
    /\ detected # NotClassified
    /\ Len(frame) > 0
    /\ Len(frame[1]) >= LandmarkCount

\* the landmark indices <<tip, pip, mcp>> of the thumb and the four fingers
FingerJoints == {<<4, 3, 2>>, <<8, 6, 5>>, <<12, 10, 9>>, <<16, 14, 13>>, <<20, 18, 17>>}

\* the y of each fingertip is above (less than) the y of the finger's MCP joint
AllTipsAboveMcp(hand) ==
    \A j \in FingerJoints : LM(hand, j[1]).y < LM(hand, j[3]).y

\* each finger has tip.y < pip.y < mcp.y (the thumb on landmarks 4, 3, 2)
AllFingersStraight(hand) ==
    \A j \in FingerJoints :
        /\ LM(hand, j[1]).y < LM(hand, j[2]).y
        /\ LM(hand, j[2]).y < LM(hand, j[3]).y

\* |indexMcp.x - pinkyMcp.x| exceeds 0.8 times |wrist.y - middleTip.y|
WiderThanFourFifths(hand) ==
    10 * Abs(LM(hand, 5).x - LM(hand, 17).x) > 8 * Abs(LM(hand, 0).y - LM(hand, 12).y)

IsOpenHandResult(d) ==
    d.sign = "Open Hand" /\ d.confidence = 85 /\ d.gestureType = "static"

-----------------------------------------------------------------------------
(* Properties of the frame loop (Spec) *)

\* stopDetection has returned and no startDetection has been called since
Stopped == onResultsCallback = 0 /\ pendingStarts = <<>>

\* a frame loop is active on an initialized, configured tracking instance
Running == isInitialized /\ hands # NoHands /\ DOMAIN loops # {}

\* no animation frame is scheduled and no results callback is registered
Idle ==
    /\ onResultsCallback = 0
    /\ animationFrameId = 0
    /\ \A k \in DOMAIN loops : loops[k].pc # "raf"

\* C2: once stopDetection has returned, and until startDetection is called again,
\* no frame is sent to the tracker and no animation frame is requested, also when
\* stopDetection was called while a send was outstanding.
C2_NothingRunsAfterStop ==
    [][(Stopped /\ obs'.op # "startDetection") => (~obs'.sent /\ ~obs'.scheduled)]_vars

\* C3: updateSettings called while the pipeline is running halts the frame loop
\* before the tracker is re-initialized: the pipeline is not running when it returns.
C3_UpdateSettingsStopsFirst ==
    [][(Running /\ obs'.op = "updateSettings") => ~Running']_vars

\* C4: a second stopDetection directly after a first raises nothing, changes
\* nothing, and leaves the pipeline idle.
C4_SecondStopIdle ==
    [][(obs'.op = "stopDetection" /\ obs'.arg = "again") =>
         /\ ~obs'.raised
         /\ UNCHANGED <<svcVars, envVars>>
         /\ Idle']_vars

-----------------------------------------------------------------------------
(* A session stopped and started again while a sentence analysis is outstanding *)

RestartResults == {Results(<<FistHand>>), Results(<<OpenHand>>), Results(<<PointHand>>)}

\* a deployment with VITE_OPENAI_API_KEY set
InitRestart ==
    /\ InitCommon
    /\ language = ASL
    /\ apiKey = TRUE
    /\ frame = <<>>
    /\ detected = NotClassified

\* the caller starts a session only when none is registered or pending, so a
\* registered callback is replaced only after a stopDetection
NextRestart ==
    \/ StartDetection /\ onResultsCallback = 0 /\ pendingStarts = <<>>
    \/ StartResume
    \/ StopDetection
    \/ \E k \in 1..MaxStarts, r \in RestartResults : LandmarkCallback(k, r)
    \/ \E k \in 1..MaxStarts : SendDone(k)
    \/ \E k \in 1..MaxStarts : RafFire(k)
    \/ \E i \in 1..MaxAnalyses, t \in ReplyTexts : AnalysisResolve(i, t)
    \/ \E i \in 1..MaxAnalyses : AnalysisFail(i)

SpecRestart == InitRestart /\ [][NextRestart]_vars

\* C11: a sentence analysis issued before stopDetection delivers nothing once
\* stopDetection has returned: when every outstanding analysis was issued in a
\* session that has since been stopped (its callback is no longer the registered
\* one), the completion of an analysis, by reply or by failure, delivers no result.
C11_StoppedAnalysisDeliversNothing ==
    [][(/\ obs'.op \in {"analysisResolved", "analysisFailed"}
        /\ \A i \in 1..Len(analyses) : analyses[i].session # onResultsCallback)
         => obs'.out = <<>>]_vars

-----------------------------------------------------------------------------
(* Properties of the frame handler while a sentence analysis is outstanding
   (SpecAnalysis) *)

\* the landmark handler ran with a callback registered and classified the frame
FrameClassified ==
    /\ obs'.op = "onResults"
    /\ onResultsCallback # 0
    /\ obs'.classified # Null
    /\ obs'.classified # Raised

\* the single delivery of the frame's own result to the registered callback
OwnResult == <<[cb |-> onResultsCallback, result |-> obs'.classified]>>

\* C12: a sentence analysis never blocks frame processing: while one is outstanding
\* a due frame is still sent, a classified frame is still pushed and delivered, and
\* the frame that triggers an analysis delivers its own result in the same handler
\* run, with the analysis still outstanding.
C12_AnalysisDoesNotBlockFrames ==
    [][/\ (FrameClassified /\ (analyses # <<>> \/ obs'.triggered)) =>
              /\ obs'.pushed
              /\ obs'.out = OwnResult
              /\ detectedSignsBuffer' =
                     addToSentenceBuffer(detectedSignsBuffer, obs'.classified.sign)
       /\ (FrameClassified /\ obs'.triggered /\ openai) => Len(analyses') = Len(analyses) + 1
       /\ (obs'.op = "processFrame" /\ analyses # <<>> /\ hands.configured /\ ~videoPaused)
              => obs'.sent]_vars

\* a frame was classified, pushed and delivered while an earlier analysis was outstanding
C12_FrameHandledDuringAnalysis ==
    /\ obs.op = "onResults"
    /\ obs.pushed
    /\ ~obs.triggered
    /\ Len(obs.out) = 1
    /\ Len(analyses) = 1
    /\ obs.before >= 2

-----------------------------------------------------------------------------
(* The lifecycle calls and the frame loop on their own: the sends and animation
   frames of the loops, without the landmark results the tracker reports *)

NextLifecycle ==
    \/ StartDetection
    \/ StartResume
    \/ StopDetection
    \/ \E c \in SettingsChoices : UpdateSettings(c[1], c[2])
    \/ \E k \in 1..MaxStarts : SendDone(k)
    \/ \E k \in 1..MaxStarts : RafFire(k)
    \/ VideoToggle

SpecLifecycle == InitLoop /\ [][NextLifecycle]_vars

-----------------------------------------------------------------------------
(* Properties of the frame loop across updateSettings and failed starts
   (Spec, SpecLifecycle) *)

\* C13: when updateSettings replaces the tracking instance, no frame send to the
\* old instance is outstanding (the frame-processing task has been drained or
\* cancelled first), and afterwards no landmark result of a replaced instance is
\* classified.
C13_ReinitializeDrainsFirst ==
    [][/\ (obs'.op = "updateSettings" /\ hands'.id # hands.id) =>
              \A k \in DOMAIN loops : loops[k].pc # "sending"
       /\ obs'.op = "onResults" =>
              \A k \in DOMAIN loops :
                  (loops[k].pc = "sending" /\ ~loops[k].called /\ loops'[k].called)
                      => loops[k].inst.id = hands.id]_vars

\* a call of startDetection whose initialize() threw
StartFailed ==
    /\ obs'.op = "startDetection"
    /\ Len(pendingStarts') = Len(pendingStarts) + 1
    /\ pendingStarts'[Len(pendingStarts')].threw

\* C14: when initialize() fails during startDetection, the call rejects, registers
\* no callback, starts no frame loop and leaves the service not marked initialized;
\* every startDetection made while the service is not marked initialized runs
\* initialize() again.
C14_FailedStartLeavesNothing ==
    [][/\ StartFailed =>
              /\ ~isInitialized'
              /\ UNCHANGED <<onResultsCallback, loops, animationFrameId>>
       /\ (obs'.op = "startResume" /\ Head(pendingStarts).threw) =>
              /\ obs'.rejected
              /\ ~obs'.sent
              /\ ~obs'.scheduled
              /\ UNCHANGED <<onResultsCallback, loops, animationFrameId, isInitialized>>
       /\ (obs'.op = "startResume" /\ ~Head(pendingStarts).threw) => ~obs'.rejected
       /\ (obs'.op = "startDetection" /\ ~isInitialized) =>
              /\ Len(pendingStarts') = Len(pendingStarts) + 1
              /\ (isInitialized' \/ pendingStarts'[Len(pendingStarts')].threw)]_vars

\* a start whose initialize() failed after constructing the instance has rejected
C14_StartRejected ==
    /\ obs.op = "startResume"
    /\ obs.rejected
    /\ ~isInitialized
    /\ hands # NoHands
    /\ ~hands.configured
    /\ onResultsCallback = 0
    /\ DOMAIN loops = {}

\* C15: under every sequence of startDetection, stopDetection and updateSettings
\* there is at most one frame loop, and at most one frame is outstanding at the tracker.
C15_SingleFrameLoop ==
    /\ Cardinality(DOMAIN loops) <= 1
    /\ Cardinality({k \in DOMAIN loops : loops[k].pc = "sending"}) <= 1

-----------------------------------------------------------------------------
(* One session fed with frames of every confidence tier the pipeline inputs reach *)

DeliveryResults ==
    {NoLandmarks, Results(<<FistHand>>), Results(<<OpenHand>>), Results(<<UnclearHand>>)}

NextDelivery ==
    \/ StartDetection /\ nextCallId = 1
    \/ StartResume
    \/ StopDetection
    \/ \E k \in 1..MaxStarts, r \in DeliveryResults : LandmarkCallback(k, r)
    \/ \E k \in 1..MaxStarts : SendDone(k)
    \/ \E k \in 1..MaxStarts : RafFire(k)

SpecDelivery == Init /\ [][NextDelivery]_vars

\* C16: a landmark callback received while a callback is registered, and whose
\* classification is not null, delivers the frame's result to that callback exactly
\* once, whether or not the frame triggered an analysis; no other step delivers a
\* per-frame result, and nothing is delivered while no callback is registered.
C16_ResultDeliveredOnce ==
    [][/\ (obs'.op = "onResults" /\ onResultsCallback # 0
              /\ obs'.classified \notin {Null, Raised}) =>
              /\ Len(obs'.out) = 1
              /\ obs'.out[1].cb = onResultsCallback
              /\ obs'.out[1].result = obs'.classified
       /\ obs'.op # "onResults" =>
              \A i \in 1..Len(obs'.out) : obs'.out[i].result.gestureType # "static"
       /\ onResultsCallback = 0 => obs'.out = <<>>]_vars

\* a frame of the lowest confidence tier repeated the last buffered label, triggered
\* no analysis, and was delivered
C16_RepeatedFallbackDelivered ==
    /\ obs.op = "onResults"
    /\ obs.classified.confidence = 65
    /\ obs.before = Len(detectedSignsBuffer)
    /\ obs.before >= 2
    /\ ~obs.triggered
    /\ Len(obs.out) = 1

-----------------------------------------------------------------------------
(* Retry policy of the sentence analysis (SpecAnalysis) *)

\* C17: the call to the language service is never retried: a trigger issues exactly
\* one call when a client exists; a failed call is removed, runs the local analysis
\* once and issues no new call; the failure leaves the client in place, so the next
\* trigger issues a call again.
C17_NoRetryFreshNextTrigger ==
    [][/\ (obs'.op = "onResults" /\ obs'.triggered) =>
              Len(analyses') = Len(analyses) + (IF openai THEN 1 ELSE 0)
       /\ (obs'.op = "onResults" /\ ~obs'.triggered) => analyses' = analyses
       /\ obs'.op = "analysisFailed" =>
              /\ Len(analyses') = Len(analyses) - 1
              /\ obs'.localRan
              /\ Len(obs'.out) <= 1
              /\ openai' = openai
              /\ openai
       /\ obs'.op \notin {"onResults", "analysisFailed", "analysisResolved"} =>
              analyses' = analyses]_vars

\* a call has failed with a callback registered: the local analysis ran, the client
\* is still in place and no call is outstanding
C17_FailedCallNotReissued ==
    /\ obs.op = "analysisFailed"
    /\ obs.localRan
    /\ onResultsCallback # 0
    /\ openai
    /\ analyses = <<>>

-----------------------------------------------------------------------------
(* Properties of the frames sent by the loop (Spec, SpecLifecycle) *)

\* C18: every frame is sent to an instance configured with detection and tracking
\* thresholds equal to the stored sensitivity / 10, also after an updateSettings
\* whose re-initialization failed.
C18_SentToCurrentThresholds ==
    [][obs'.sent =>
         /\ hands'.configured
         /\ hands'.minDetectionConfidence = sensitivity'
         /\ hands'.minTrackingConfidence = sensitivity']_vars

\* C19: the loop reads the video element's readiness (videoPaused stands for
\* paused or ended) before each send: no frame is sent while the video is paused; a
\* run of processFrame on a paused video requests the next animation frame instead,
\* and a run on a playing video with a tracking instance sends.
C19_LoopPollsReadiness ==
    [][/\ obs'.sent => ~videoPaused
       /\ (obs'.op = "processFrame" /\ videoPaused) => (~obs'.sent /\ obs'.scheduled)
       /\ (obs'.op = "processFrame" /\ ~videoPaused /\ hands # NoHands) =>
              (obs'.sent /\ ~obs'.scheduled)
       /\ obs'.scheduled => animationFrameId' = nextRafId
       /\ obs'.scheduled => \E k \in DOMAIN loops' :
              loops'[k].pc = "raf" /\ loops'[k].raf = animationFrameId']_vars

\* processFrame ran on a paused video: nothing was sent and the next poll is scheduled
C19_PausedPollRescheduled ==
    /\ obs.op = "processFrame"
    /\ videoPaused
    /\ ~obs.sent
    /\ obs.scheduled
    /\ hands.configured
    /\ \E k \in DOMAIN loops : loops[k].pc = "raf" /\ loops[k].raf = animationFrameId

-----------------------------------------------------------------------------
(* The KSL overlay on its own: detectKSLGesture applied to every hand sample *)

InitOverlay ==
    /\ InitCommon
    /\ language = KSL
    /\ apiKey = FALSE
    /\ frame \in {<<h>> : h \in HandSamples(Layouts)}
    /\ detected = NotClassified

\* the call in classifyGesture: a label becomes a result of confidence 0.75, null stays null
Overlay ==
    /\ detected = NotClassified
    /\ detected' = LET kslSign == detectKSLGesture(frame[1])
                   IN  IF kslSign # NoSign THEN DetectionResult(kslSign, 75, "ksl") ELSE Null
    /\ obs' = Obs("detectKSLGesture")
    /\ UNCHANGED <<svcVars, envVars, frame>>

NextOverlay == Overlay

SpecOverlay == InitOverlay /\ [][NextOverlay]_vars

\* the labels the KSL predicates of detectKSLGesture return themselves
KslOwnLabels ==
    {"1", "2", "3", "4", "5", "Hodi", "Asante", "Tafadhali", "Ndio", "Hapana", "Maji",
     "Chakula"}

\* C20: when the KSL predicates fail and the default detection re-run by the overlay
\* yields a label L, the overlay returns the vocabulary entry of L when there is
\* one and L itself when there is none; it never returns an absent result for L.
C20_UnmappedLabelPassesThrough ==
    detected # NotClassified =>
        LET L == detectASLGestureForKSL(frame[1])
        IN  (L # NoSign /\ detected.sign \notin KslOwnLabels) =>
                detected.sign = IF L \in DOMAIN kslVocabulary THEN kslVocabulary[L] ELSE L

-----------------------------------------------------------------------------
(* Properties of the classifier cascade (SpecClassify) *)

\* C21: the classifier is a cascade in which the first matching tier wins, in the
\* order canonical poses, alphabet and numbers, vocabulary patterns, language
\* overlay, fallback: a result of the fallback tier (confidence 0.65 or 0.7) is
\* returned only for a hand on which no earlier tier matches, the KSL overlay
\* included when the language is KSL.
C21_FallbackOnlyWhenNoTierMatches ==
    (FirstHandClassified /\ detected.confidence \in {65, 70}) =>
        /\ canonicalPose(frame[1]) = Null
        /\ ~iLoveYouPose(frame[1])
        /\ recognizeASLAlphabet(frame[1]) = NoSign
        /\ recognizeNumbers(frame[1]) = NoSign
        /\ vocabularySigns(frame[1]) = NoSign
        /\ language = KSL => detectKSLGesture(frame[1]) = NoSign

\* C22: for every hand list whose first hand has at least 21 landmarks the
\* classifier returns a result, never null, whose confidence is one of 0.85, 0.8,
\* 0.75, 0.7, 0.65 and so passes the handler's 0.5 gate and the UI's 0.6 gate.
C22_TrackedHandAlwaysLabelled ==
    (Len(frame) > 0 /\ Len(frame[1]) >= LandmarkCount) =>
        /\ classifyGesture(frame, language) # {}
        /\ \A d \in classifyGesture(frame, language) :
               /\ d # Null
               /\ d.sign # NoSign
               /\ d.confidence \in {85, 80, 75, 70, 65}
               /\ d.confidence > ConfidenceGate
               /\ d.confidence > UiConfidenceGate
        /\ detected # NotClassified => detected \in classifyGesture(frame, language)

\* a hand no rule of the cascade matches was labelled by the random fallback
C22_FallbackLabelReturned ==
    /\ FirstHandClassified
    /\ detected.confidence = 65
    /\ detected.handShape = "fallback"
    /\ analyzeFingerPattern(frame[1]) = NoSign

-----------------------------------------------------------------------------
(* Properties of the sentence results and of the buffer's writers (SpecAnalysis) *)

\* C23: every result of the sentence analysis, from the language service or from
\* the local analysis, is delivered to the registered callback tagged "sentence";
\* no per-frame result carries that tag; a sentence result is never pushed, and the
\* buffer only ever receives the label of a per-frame classification.
C23_SentenceResultsTaggedNotBuffered ==
    [][/\ obs'.op \in {"analysisResolved", "analysisFailed"} =>
              /\ \A i \in 1..Len(obs'.out) :
                     /\ obs'.out[i].result.gestureType = "sentence"
                     /\ obs'.out[i].result.handShape = "analysis"
                     /\ obs'.out[i].cb = onResultsCallback
                     /\ onResultsCallback # 0
              /\ detectedSignsBuffer' = detectedSignsBuffer
       /\ obs'.op = "onResults" =>
              \A i \in 1..Len(obs'.out) :
                  /\ obs'.out[i].result.gestureType = "static"
                  /\ obs'.out[i].result = obs'.classified
       /\ (obs'.op = "onResults" /\ detectedSignsBuffer' # detectedSignsBuffer) =>
              /\ obs'.classified.gestureType = "static"
              /\ detectedSignsBuffer'[Len(detectedSignsBuffer')] = obs'.classified.sign]_vars

\* the language service replied and its text was delivered as a sentence result
C23_ReplyDeliveredAsSentence ==
    /\ obs.op = "analysisResolved"
    /\ Len(obs.out) = 1
    /\ obs.out[1].result.gestureType = "sentence"
    /\ obs.out[1].result.sign = "Sentence Analysis: Likely a greeting."
    /\ Len(detectedSignsBuffer) >= 2

\* C24: the sentence analysis is invoked only by the landmark handler, only with at
\* least two labels buffered and more than 3000 ms after the previous invocation;
\* the time of the last invocation is moved by an invocation alone, never by a
\* reply, a failure or a call that is still outstanding.
C24_InvocationsMoreThanIntervalApart ==
    [][/\ obs'.triggered =>
              /\ obs'.op = "onResults"
              /\ Len(detectedSignsBuffer') >= 2
              /\ now - lastSentenceAnalysis > sentenceAnalysisInterval
              /\ lastSentenceAnalysis' = now
       /\ Len(analyses') > Len(analyses) => obs'.triggered
       /\ lastSentenceAnalysis' # lastSentenceAnalysis => obs'.triggered]_vars

\* an analysis was invoked while the call of the previous invocation is outstanding
C24_InvokedWhileEarlierOutstanding ==
    /\ obs.op = "onResults"
    /\ obs.triggered
    /\ Len(analyses) = 2
    /\ lastSentenceAnalysis = now

-----------------------------------------------------------------------------
(* The local pattern analysis on its own: basicSentenceAnalysis applied to every
   buffer of up to MaxSigns labels, with and without a registered callback *)

MaxSigns == 4

\* the labels the rules of basicSentenceAnalysis name, and one they do not
LocalLabels == {"Hello", "How are you?", "I", "Love", "You", "Red", "Fist"}

\* a call of basicSentenceAnalysis()
BasicSentenceAnalysis ==
    /\ obs' = [Obs("basicSentenceAnalysis") EXCEPT
                  !.before = Len(detectedSignsBuffer), !.localRan = TRUE,
                  !.out = basicSentenceAnalysis(detectedSignsBuffer, onResultsCallback)]
    /\ UNCHANGED <<svcVars, envVars, harnessVars>>

NextLocal ==
    \/ StartDetection /\ nextCallId = 1
    \/ StartResume
    \/ \E sign \in LocalLabels : Len(detectedSignsBuffer) < MaxSigns /\ Push(sign)
    \/ BasicSentenceAnalysis

SpecLocal == InitLoop /\ [][NextLocal]_vars

\* the decimal numeral of a buffer length
LengthNumeral(n) == <<"1", "2", "3", "4", "5", "6", "7", "8", "9", "10">>[n]

HasGreeting(signs) == Includes(signs, "Hello") /\ Includes(signs, "How are you?")
HasILoveYou(signs) == Includes(signs, "I") /\ Includes(signs, "Love") /\ Includes(signs, "You")
HasColour(signs) == \E c \in {"Red", "Blue", "Green", "Yellow"} : Includes(signs, c)

\* the single delivery of a flow analysis with the given message
FlowDelivery(message) ==
    <<[cb |-> onResultsCallback,
       result |-> [sign |-> "Flow Analysis: " \o message, confidence |-> 80,
                   gestureType |-> "sentence", handShape |-> "analysis"]]>>

\* C25: with a callback registered and at least two labels buffered, the local
\* analysis delivers the message of the first rule that matches, in the order
\* greeting, "I love you", colour, three or more labels (naming the buffer's
\* length); when no rule matches it delivers nothing; it never changes the
\* service's state.
C25_FirstMatchingRule ==
    [][obs'.op = "basicSentenceAnalysis" =>
         /\ UNCHANGED <<svcVars, envVars>>
         /\ (onResultsCallback # 0 /\ Len(detectedSignsBuffer) >= 2) =>
              LET signs == detectedSignsBuffer
              IN  obs'.out =
                    IF HasGreeting(signs)
                    THEN FlowDelivery("Greeting sequence detected. Good flow between hello and inquiry.")
                    ELSE IF HasILoveYou(signs)
                    THEN FlowDelivery("Complete sentence: \"I love you\". Well-structured emotional expression.")
                    ELSE IF HasColour(signs)
                    THEN FlowDelivery("Color description detected. Consider adding size or object context.")
                    ELSE IF Len(signs) >= 3
                    THEN FlowDelivery(LengthNumeral(Len(signs))
                             \o " signs detected. Check sign order and consider adding connecting signs.")
                    ELSE <<>>]_vars

\* the "I love you" rule won over the colour rule on a buffer that matches both
C25_ILoveYouBeforeColour ==
    /\ obs.op = "basicSentenceAnalysis"
    /\ onResultsCallback # 0
    /\ HasILoveYou(detectedSignsBuffer) /\ HasColour(detectedSignsBuffer)
    /\ ~HasGreeting(detectedSignsBuffer)
    /\ Len(obs.out) = 1

-----------------------------------------------------------------------------
(* Sessions that collect labels, with stops, restarts, settings changes and clears
   in between; each session is followed up to the landmarks of its first frame *)

SessionResults == {Results(<<FistHand>>), Results(<<OpenHand>>)}

NextSession ==
    \/ StartDetection /\ onResultsCallback = 0 /\ pendingStarts = <<>>
    \/ StartResume
    \/ StopDetection
    \/ \E c \in SettingsChoices : UpdateSettings(c[1], c[2])
    \/ ClearSentenceBuffer
    \/ \E k \in 1..MaxStarts, r \in SessionResults : LandmarkCallback(k, r)

SpecSession == InitLoop /\ [][NextSession]_vars

\* C26: startDetection, its continuation, stopDetection and updateSettings leave
\* the buffer and the last-analysis timestamp as they are; the buffer changes only
\* by the handler's push of the classified label and by clearSentenceBuffer.
C26_BufferSurvivesLifecycleCalls ==
    [][/\ obs'.op \in {"startDetection", "startResume", "stopDetection", "updateSettings"} =>
              /\ detectedSignsBuffer' = detectedSignsBuffer
              /\ lastSentenceAnalysis' = lastSentenceAnalysis
       /\ detectedSignsBuffer' # detectedSignsBuffer =>
              \/ /\ obs'.op = "onResults"
                 /\ onResultsCallback # 0
                 /\ detectedSignsBuffer' = addToSentenceBuffer(detectedSignsBuffer, obs'.classified.sign)
              \/ /\ obs'.op = "clearSentenceBuffer"
                 /\ detectedSignsBuffer' = <<>>]_vars

\* the language was changed to KSL after a stop, with labels collected under ASL
\* and the time of their analysis still in place
C26_LabelsKeptAcrossLanguageChange ==
    /\ obs.op = "updateSettings"
    /\ language = KSL
    /\ onResultsCallback = 0
    /\ Len(detectedSignsBuffer) >= 2
    /\ lastSentenceAnalysis > 0

-----------------------------------------------------------------------------
(* Reachability of the letter and numeral rules *)

\* the labels returned by the rules of recognizeASLAlphabet
AlphabetLabels ==
    {"A", "B", "C", "D", "E", "F", "G", "H", "I", "J", "K", "L", "M",
     "N", "O", "P", "Q", "R", "S", "T", "U", "V", "W", "X", "Y", "Z"}

\* the labels returned by the rules of recognizeNumbers
NumberLabels == {"0", "1", "2", "3", "4", "5", "6", "7", "8", "9", "10"}

\* under the language in force, classifyGesture returns the label from the
\* alphabet tier or the number tier
FromAlphabetNumberTier(landmarks, label) ==
    \E d \in classifyGesture(landmarks, language) :
        /\ d # Null
        /\ d.sign = label
        /\ d.handShape = IF label \in AlphabetLabels THEN "alphabet" ELSE "number"

\* C27: whichever language is in force, each of the 26 letters and the 11 numerals
\* is returned from the alphabet or number tier for some hand of 21 landmarks.
C27_EveryLetterAndNumeralReachable ==
    \A label \in AlphabetLabels \cup NumberLabels :
        \E landmarks \in ClassifyInputs(Layouts) : FromAlphabetNumberTier(landmarks, label)

-----------------------------------------------------------------------------
(* Properties of a start interrupted by a stop (SpecLifecycle) *)

\* C28: when stopDetection is called while a startDetection awaits initialize(),
\* the start that resumes next registers no callback and starts no frame loop:
\* it sends no frame and requests no animation frame, so that start, stop, start
\* leave the one loop of the second start.
C28_StoppedStartDoesNotRun ==
    [][(obs.op = "stopDetection" /\ pendingStarts # <<>> /\ obs'.op = "startResume") =>
         /\ onResultsCallback' = 0
         /\ DOMAIN loops' = DOMAIN loops
         /\ ~obs'.sent
         /\ ~obs'.scheduled]_vars

-----------------------------------------------------------------------------
(* Properties of the local analysis after a failed call (SpecAnalysis) *)

\* C29: when a call to the language service fails, the local analysis that follows
\* analyses the label sequence that was submitted with that call, whatever was
\* pushed, evicted or cleared while the call was outstanding.
C29_FallbackAnalysesSubmittedLabels ==
    [][obs'.op = "analysisFailed" =>
         \E i \in 1..Len(analyses) :
             /\ analyses' = RemoveAt(analyses, i)
             /\ obs'.out = basicSentenceAnalysis(analyses[i].request.signsSequence,
                                                 onResultsCallback)]_vars

-----------------------------------------------------------------------------
(* Properties of the landmark handler without a registered callback (SpecAnalysis) *)

\* C30: while no callback is registered, a landmark callback pushes nothing,
\* leaves the last-analysis timestamp alone, triggers no analysis, issues no call
\* and delivers nothing.
C30_HandlerInertWithoutCallback ==
    [][(obs'.op = "onResults" /\ onResultsCallback = 0) =>
         /\ detectedSignsBuffer' = detectedSignsBuffer
         /\ lastSentenceAnalysis' = lastSentenceAnalysis
         /\ analyses' = analyses
         /\ ~obs'.pushed
         /\ ~obs'.triggered
         /\ obs'.out = <<>>]_vars

\* the landmarks of a send that was outstanding at the stop arrived: a hand that
\* classifies above the gate, with labels buffered and an analysis due
C30_LandmarksAfterStop ==
    /\ obs.op = "onResults"
    /\ onResultsCallback = 0
    /\ obs.classified # Null
    /\ obs.classified.confidence > ConfidenceGate
    /\ Len(detectedSignsBuffer) >= 2
    /\ detectedSignsBuffer[Len(detectedSignsBuffer)] # obs.classified.sign
    /\ sentenceConstructionEnabled
    /\ now - lastSentenceAnalysis > sentenceAnalysisInterval

====
